---- MODULE Spec2Model ----
(***************************************************************************)
(* YotsubaCore (src-tauri/src/lib.rs): the supervisor of the sing-box       *)
(* worker process, its background Monitor and Log Tailer threads, and the   *)
(* synthesis of the worker configuration from the stored profile.           *)
(*                                                                          *)
(* Rust's Option<T> is modelled as a set with at most one element:          *)
(* None == {} and Some(x) == {x}.                                           *)
(***************************************************************************)
EXTENDS Integers, Sequences, FiniteSets, TLC

\* ------------------------------------------------------------------ bounds
\* Largest value the generation token (ProxyState.watch_token) takes.
MaxToken == 2
\* Largest number of endpoints in an enumerated profile document.
MaxOutbounds == 3

None == {}
Some(x) == {x}
Unwrap(o) == CHOOSE x \in o : TRUE

\* ------------------------------------------------------- profile documents
\* An endpoint of the profile's "outbounds" array. type is "" when the JSON
\* value has no string "type"; tag is None when it has no string "tag";
\* outbounds and default are the selector's member list and default member.
Outbound(type, tag, members, default) ==
    [type |-> type, tag |-> tag, outbounds |-> members, default |-> default]

\* profile.json: absent (exists = FALSE) or a document of a given shape,
\* with its "outbounds" array and its own "route" section (None: no such key).
ProfileDoc(shape, outbounds) ==
    [exists |-> TRUE, shape |-> shape, outbounds |-> outbounds, route |-> None]

\* A profile document that carries a "route" section of its own.
ProfileWithRoute(doc, route) == [doc EXCEPT !.route = Some(route)]

NoProfile ==
    [exists |-> FALSE, shape |-> "ok", outbounds |-> <<>>, route |-> None]

default_profile ==
    ProfileDoc("ok", << Outbound("socks", Some("proxy"), None, None),
                        Outbound("direct", Some("direct"), None, None) >>)

\* err(tag, detail): the tagged error string "<CODE>|<detail>".
err(tag, detail) == tag \o "|" \o detail

\* outbounds.iter().filter_map(|item| item.get("tag").and_then(as_str))
RECURSIVE TagsOf(_)
TagsOf(obs) ==
    IF obs = <<>> THEN <<>>
    ELSE (IF Head(obs).tag = None THEN <<>> ELSE << Unwrap(Head(obs).tag) >>)
         \o TagsOf(Tail(obs))

SeqToSet(s) == { s[i] : i \in 1..Len(s) }

\* Mutant of selector_tags: "direct" is not filtered out.
selector_tags_keep_direct(tags) == SelectSeq(tags, LAMBDA t : t # "proxy")

\* tags.iter().filter(|tag| *tag != "proxy" && *tag != "direct")
selector_tags(tags) == SelectSeq(tags, LAMBDA t : t # "proxy" /\ t # "direct")

\* outbounds.iter().position(|item| tag == "proxy"); 0 stands for None.
proxy_index(obs) ==
    LET hits == { i \in 1..Len(obs) : obs[i].tag = Some("proxy") }
    IN  IF hits = {} THEN 0 ELSE CHOOSE i \in hits : \A j \in hits : i <= j

\* unique_tag: base if unused, else the first unused of base-2, base-3, ...
RECURSIVE unique_tag_from(_, _, _)
unique_tag_from(base, index, used) ==
    LET candidate == base \o "-" \o ToString(index)
    IN  IF candidate \in used THEN unique_tag_from(base, index + 1, used)
        ELSE candidate

\* Mutant of unique_tag: the base is returned even when it is taken.
unique_tag_no_check(base, used) == base

unique_tag(base, used) ==
    IF base \in used THEN unique_tag_from(base, 2, used) ELSE base

\* ------------------------------------------------------ config synthesis
SynthOk(obs) == [err |-> None, outbounds |-> obs]
SynthErr(message) == [err |-> Some(message), outbounds |-> <<>>]

direct_outbound == Outbound("direct", Some("direct"), None, None)

\* if !tags.iter().any(|tag| tag == "direct") { outbounds.push(direct) }
ensure_direct(obs) ==
    IF "direct" \in SeqToSet(TagsOf(obs)) THEN obs
    ELSE Append(obs, direct_outbound)

\* The stored active tag, dropped when it names no endpoint of the profile.
resolve_active(tags, stored_active) ==
    IF stored_active # None /\ Unwrap(stored_active) \notin SeqToSet(tags)
    THEN None ELSE stored_active

\* The "proxy" endpoint is a selector: refresh its members and its default.
update_selector(obs, index, tags, active) ==
    LET members  == selector_tags(tags)
        withList == IF members # <<>>
                    THEN [obs[index] EXCEPT !.outbounds = Some(members)]
                    ELSE obs[index]
        withDef  == IF active # None
                    THEN [withList EXCEPT !.default = active]
                    ELSE withList
    IN  SynthOk(ensure_direct([obs EXCEPT ![index] = withDef]))

\* The "proxy" endpoint is concrete and a selector is needed: rename it and
\* append a selector tagged "proxy".
wrap_concrete(obs, index, tags, active) ==
    LET renamed      == unique_tag("proxy-origin", SeqToSet(tags))
        obs1         == [obs EXCEPT ![index].tag = Some(renamed)]
        selected_tag == IF active # None THEN Unwrap(active) ELSE renamed
        members      == selector_tags(TagsOf(obs1))
    IN  IF members = <<>>
        THEN SynthErr(err("PROFILE_OUTBOUNDS_MISSING", "no proxy outbounds"))
        ELSE SynthOk(ensure_direct(Append(obs1,
                 Outbound("selector", Some("proxy"), Some(members),
                          Some(selected_tag)))))

\* Mutant of add_selector: the selector is appended even with no member.
add_selector_unchecked(obs, tags, active) ==
    SynthOk(ensure_direct(Append(obs,
        Outbound("selector", Some("proxy"), Some(selector_tags(tags)),
                 Some(IF active # None THEN Unwrap(active) ELSE tags[1])))))

\* No endpoint is tagged "proxy": append a selector over the existing tags.
add_selector(obs, tags, active) ==
    LET selected_tag == IF active # None THEN Unwrap(active) ELSE tags[1]
        members      == selector_tags(tags)
    IN  IF members = <<>>
        THEN SynthErr(err("PROFILE_OUTBOUNDS_MISSING", "no proxy outbounds"))
        ELSE SynthOk(ensure_direct(Append(obs,
                 Outbound("selector", Some("proxy"), Some(members),
                          Some(selected_tag)))))

\* needs_selector = active_tag.is_some() && tags.len() > 1
needs_selector(tags, active) == active # None /\ Len(tags) > 1

\* build_config, the endpoint list: selector normalization and "direct".
build_outbounds(obs, stored_active) ==
    LET tags   == TagsOf(obs)
        index  == proxy_index(obs)
        active == resolve_active(tags, stored_active)
    IN  IF tags = <<>>
        THEN SynthErr(err("PROFILE_OUTBOUNDS_MISSING", "no outbounds"))
        ELSE IF index # 0
        THEN IF obs[index].type = "selector"
             THEN update_selector(obs, index, tags, active)
             ELSE IF needs_selector(tags, active)
             THEN wrap_concrete(obs, index, tags, active)
             ELSE SynthOk(ensure_direct(obs))
        ELSE add_selector(obs, tags, active)

\* ---------------------------------------------------------- routing rules
\* A path of an app rule is the sequence of its bytes; Rust compares and
\* sorts Strings byte by byte.
QUOTE == 34
SLASH == 47
COLON == 58
BACKSLASH == 92

\* The one-byte characters with char::is_whitespace.
Whitespace == {9, 10, 11, 12, 13, 32}

\* trim_start_matches / trim_end_matches for a set of characters.
RECURSIVE TrimStart(_, _)
TrimStart(s, drop) ==
    IF s # <<>> /\ Head(s) \in drop THEN TrimStart(Tail(s), drop) ELSE s

RECURSIVE TrimEnd(_, _)
TrimEnd(s, drop) ==
    IF s # <<>> /\ s[Len(s)] \in drop
    THEN TrimEnd(SubSeq(s, 1, Len(s) - 1), drop) ELSE s

\* value.trim().trim_matches('"')
trim_path(value) ==
    LET trimmed == TrimEnd(TrimStart(value, Whitespace), Whitespace)
    IN  TrimEnd(TrimStart(trimmed, {QUOTE}), {QUOTE})

Contains(s, c) == \E i \in 1..Len(s) : s[i] = c

is_process_name(value) ==
    LET trimmed == trim_path(value)
    IN  /\ trimmed # <<>>
        /\ ~Contains(trimmed, BACKSLASH)
        /\ ~Contains(trimmed, SLASH)
        /\ ~Contains(trimmed, COLON)

\* a < b for Strings: the order of their byte sequences.
RECURSIVE StrLess(_, _)
StrLess(a, b) ==
    IF b = <<>> THEN FALSE
    ELSE IF a = <<>> THEN TRUE
    ELSE IF Head(a) # Head(b) THEN Head(a) < Head(b)
    ELSE StrLess(Tail(a), Tail(b))

\* values.sort()
RECURSIVE SortInsert(_, _)
SortInsert(sorted, x) ==
    IF sorted = <<>> THEN << x >>
    ELSE IF StrLess(x, Head(sorted)) THEN << x >> \o sorted
    ELSE << Head(sorted) >> \o SortInsert(Tail(sorted), x)

RECURSIVE Sort(_)
Sort(values) ==
    IF values = <<>> THEN <<>>
    ELSE SortInsert(Sort(Tail(values)), Head(values))

\* values.dedup(): consecutive repeated elements are removed.
RECURSIVE Dedup(_)
Dedup(values) ==
    IF Len(values) < 2 THEN values
    ELSE IF values[1] = values[2] THEN Dedup(Tail(values))
    ELSE << Head(values) >> \o Dedup(Tail(values))

sort_dedup(values) == Dedup(Sort(values))

\* An app rule of the caller: its path or process name and its mode.
AppRule(path, mode) == [path |-> path, mode |-> mode]

\* The paths of the rules of one mode and one class (names or paths),
\* trimmed, without the empty ones, in the order of the rules.
RECURSIVE collect_paths(_, _, _)
collect_paths(rules, mode, names) ==
    IF rules = <<>> THEN <<>>
    ELSE LET path == trim_path(Head(rules).path)
         IN  (IF path # <<>> /\ Head(rules).mode = mode
                 /\ is_process_name(path) = names
              THEN << path >> ELSE <<>>)
             \o collect_paths(Tail(rules), mode, names)

normalize_rules(rules) ==
    [proxy_paths  |-> sort_dedup(collect_paths(rules, "proxy", FALSE)),
     direct_paths |-> sort_dedup(collect_paths(rules, "direct", FALSE)),
     proxy_names  |-> sort_dedup(collect_paths(rules, "proxy", TRUE)),
     direct_names |-> sort_dedup(collect_paths(rules, "direct", TRUE))]

GEOIP_RU_TAG == "geoip-ru"
LOCAL_PROXY_TAG == "local-proxy"

\* A rule of the generated route: what it matches on (kind), the fixed value
\* or the port or the process list it matches, and where it sends the
\* traffic (None for the hijack-dns action).
RouteRule(kind, fixed, port, processes, outbound) ==
    [kind |-> kind, fixed |-> fixed, port |-> port, processes |-> processes,
     outbound |-> outbound]

hijack_dns_rule == RouteRule("hijack-dns", "", 53, <<>>, None)
local_inbound_rule == RouteRule("inbound", LOCAL_PROXY_TAG, 0, <<>>, Some("proxy"))

push_ru_bypass_rules(rules) ==
    rules \o << RouteRule("domain_suffix", ".ru", 0, <<>>, Some("direct")),
                RouteRule("rule_set", GEOIP_RU_TAG, 0, <<>>, Some("direct")) >>

push_process_rules(rules, paths, names, outbound) ==
    rules
    \o (IF paths # <<>>
        THEN << RouteRule("process_path", "", 0, paths, Some(outbound)) >>
        ELSE <<>>)
    \o (IF names # <<>>
        THEN << RouteRule("process_name", "", 0, names, Some(outbound)) >>
        ELSE <<>>)

\* The rules every route starts with.
common_rules == Append(push_ru_bypass_rules(<< hijack_dns_rule >>), local_inbound_rule)

\* Mutant of build_route: in Selected the proxy-mode rules come first.
build_route_proxy_first(m, app_rules) ==
    LET n      == normalize_rules(app_rules)
        proxy  == push_process_rules(common_rules, n.proxy_paths, n.proxy_names, "proxy")
        direct == push_process_rules(common_rules, n.direct_paths, n.direct_names, "direct")
    IN  IF m = "Full" THEN [rules |-> direct, final |-> "proxy"]
        ELSE [rules |-> push_process_rules(proxy, n.direct_paths,
                                           n.direct_names, "direct"),
              final |-> "direct"]

\* build_config, the route of Full and of Selected.
build_route(m, app_rules) ==
    LET n      == normalize_rules(app_rules)
        direct == push_process_rules(common_rules, n.direct_paths, n.direct_names, "direct")
    IN  IF m = "Full" THEN [rules |-> direct, final |-> "proxy"]
        ELSE [rules |-> push_process_rules(direct, n.proxy_paths,
                                           n.proxy_names, "proxy"),
              final |-> "direct"]

BuildErr(message, doc) == [err |-> Some(message), profile |-> doc, config |-> None]

\* Mutant of ensure_profile: PROFILE_MISSING is returned without writing the
\* default profile.
ensure_profile_no_write(doc, io) ==
    IF io = "path_error" THEN BuildErr(err("PATH_ERROR", "app data dir"), doc)
    ELSE IF ~doc.exists
    THEN BuildErr(err("PROFILE_MISSING", "profile.json"), doc)
    ELSE IF doc.shape = "unparsable"
    THEN BuildErr(err("PROFILE_INVALID", "not JSON"), doc)
    ELSE [err |-> None, profile |-> doc, config |-> None]

\* ensure_profile: a missing profile.json is created with the default
\* profile and PROFILE_MISSING is returned; io is what the file system does
\* ("ok", "path_error": the data directory cannot be resolved or created,
\* "write_error": a write fails).
ensure_profile(doc, io) ==
    IF io = "path_error" THEN BuildErr(err("PATH_ERROR", "app data dir"), doc)
    ELSE IF ~doc.exists
    THEN IF io = "write_error"
         THEN BuildErr(err("PROFILE_INVALID", "write failed"), doc)
         ELSE BuildErr(err("PROFILE_MISSING", "profile.json"), default_profile)
    ELSE IF doc.shape = "unparsable"
    THEN BuildErr(err("PROFILE_INVALID", "not JSON"), doc)
    ELSE [err |-> None, profile |-> doc, config |-> None]

\* build_config(app, mode, rules): the result, the profile document it
\* leaves on disk, and the configuration it writes (None: nothing written).
\* The configuration is the profile document with its outbounds replaced
\* and, unless the mode is Off, its route replaced.
build_config(doc, stored_active, m, rules, io) ==
    LET ensured == ensure_profile(doc, io)
        built   == build_outbounds(doc.outbounds, stored_active)
    IN  IF ensured.err # None THEN ensured
        ELSE IF doc.shape = "not_object"
        THEN BuildErr(err("PROFILE_INVALID", "root must be an object"), doc)
        ELSE IF doc.shape = "no_outbounds"
        THEN BuildErr(err("PROFILE_OUTBOUNDS_MISSING", "missing outbounds"), doc)
        ELSE IF doc.shape = "not_array"
        THEN BuildErr(err("PROFILE_INVALID", "outbounds must be an array"), doc)
        ELSE IF built.err # None THEN BuildErr(Unwrap(built.err), doc)
        ELSE IF io = "write_error"
        THEN BuildErr(err("CONFIG_INVALID", "write failed"), doc)
        ELSE [err |-> None, profile |-> doc,
              config |-> Some([outbounds |-> built.outbounds,
                               route |-> IF m = "Off" THEN doc.route
                                         ELSE Some(build_route(m, rules))])]

\* -------------------------------------------------------- profile commands
\* A JSON value handed to append_outbounds: an object with its string
\* "type", "tag" and "ps" (None: no such string), or a value of another kind.
RawOutbound(object, type, tag, ps) ==
    [object |-> object, type |-> type, tag |-> tag, ps |-> ps]

\* The strings with tag.trim().is_empty() among the enumerated ones.
BlankStrings == {"", " "}

guess_tag(raw, fallback) ==
    IF raw.tag # None /\ Unwrap(raw.tag) \notin BlankStrings THEN Unwrap(raw.tag)
    ELSE IF raw.ps # None THEN Unwrap(raw.ps)
    ELSE fallback

\* The loop of append_outbounds over the batch, from the accumulated
\* outbounds, used tags, count, errors and first added tag.
RECURSIVE merge_outbounds(_, _)
merge_outbounds(batch, acc) ==
    IF batch = <<>> THEN acc
    ELSE LET raw      == Head(batch)
             fallback == IF raw.type # None THEN Unwrap(raw.type) ELSE "profile"
             unique   == unique_tag(guess_tag(raw, fallback), acc.used)
         IN  IF ~raw.object
             THEN merge_outbounds(Tail(batch),
                      [acc EXCEPT !.errors = Append(@, "Invalid outbound object")])
             ELSE merge_outbounds(Tail(batch),
                      [outbounds |-> Append(acc.outbounds,
                           Outbound(IF raw.type # None THEN Unwrap(raw.type) ELSE "",
                                    Some(unique), None, None)),
                       used |-> acc.used \cup {unique},
                       added |-> acc.added + 1,
                       errors |-> acc.errors,
                       first_added |-> IF acc.first_added = None
                                       THEN Some(unique) ELSE acc.first_added])

\* load_profile_json: the document read, after a missing profile.json has
\* been created with the default profile.
load_profile_json(doc, io) ==
    LET ensured == ensure_profile(doc, io)
    IN  IF ensured.err = Some(err("PROFILE_MISSING", "profile.json"))
        THEN [err |-> None, profile |-> ensured.profile]
        ELSE [err |-> ensured.err, profile |-> ensured.profile]

\* .get("outbounds").and_then(Value::as_array).cloned().unwrap_or_default()
outbounds_or_default(doc) == IF doc.shape = "ok" THEN doc.outbounds ELSE <<>>

\* profile_data: what a command returns about the profile.
profile_data(doc, active) ==
    [outbounds |-> outbounds_or_default(doc), active_tag |-> active]

\* What a profile command leaves behind and returns: Err(message), or Ok
\* with the profile data and, for an import, the count and the messages.
CommandErr(message, doc, active) ==
    [err |-> Some(message), profile |-> doc, active_tag |-> active,
     data |-> None, added |-> 0, errors |-> <<>>]
CommandOk(doc, active, added, errors) ==
    [err |-> None, profile |-> doc, active_tag |-> active,
     data |-> Some(profile_data(doc, active)), added |-> added,
     errors |-> errors]

\* Mutant of append_outbounds: the first added tag replaces the active tag.
append_outbounds_reselect(doc, active, new_outbounds, io) ==
    LET loaded == load_profile_json(doc, io)
        read   == loaded.profile
        merged == merge_outbounds(new_outbounds,
                      [outbounds |-> outbounds_or_default(read),
                       used |-> SeqToSet(TagsOf(outbounds_or_default(read))),
                       added |-> 0, errors |-> <<>>, first_added |-> None])
        saved  == [read EXCEPT !.shape = "ok", !.outbounds = merged.outbounds]
        chosen == IF merged.first_added # None /\ io # "state_write_error"
                  THEN merged.first_added ELSE active
    IN  IF loaded.err # None THEN CommandErr(Unwrap(loaded.err), read, active)
        ELSE IF read.shape = "not_object"
        THEN CommandErr(err("PROFILE_INVALID", "root must be an object"), read, active)
        ELSE IF io = "write_error"
        THEN CommandErr(err("PROFILE_INVALID", "write failed"), read, active)
        ELSE CommandOk(saved, chosen, merged.added, merged.errors)

\* io is what the file system does during the command: "ok", "path_error"
\* (the data directory cannot be resolved), "write_error" (writing
\* profile.json fails) or "state_write_error" (writing profile.state.json
\* fails).
append_outbounds(doc, active, new_outbounds, io) ==
    LET loaded == load_profile_json(doc, io)
        read   == loaded.profile
        merged == merge_outbounds(new_outbounds,
                      [outbounds |-> outbounds_or_default(read),
                       used |-> SeqToSet(TagsOf(outbounds_or_default(read))),
                       added |-> 0, errors |-> <<>>, first_added |-> None])
        saved  == [read EXCEPT !.shape = "ok", !.outbounds = merged.outbounds]
        chosen == IF active = None /\ merged.first_added # None
                     /\ io # "state_write_error"
                  THEN merged.first_added ELSE active
    IN  IF loaded.err # None THEN CommandErr(Unwrap(loaded.err), read, active)
        ELSE IF read.shape = "not_object"
        THEN CommandErr(err("PROFILE_INVALID", "root must be an object"), read, active)
        ELSE IF io = "write_error"
        THEN CommandErr(err("PROFILE_INVALID", "write failed"), read, active)
        ELSE CommandOk(saved, chosen, merged.added, merged.errors)

\* A line handed to import_share_links: its text, the scheme it starts with
\* after trimming ("": none of the supported ones) and the outbound the
\* parser of that scheme builds from it (None: the parser rejects the line).
Link(text, scheme, outbound) ==
    [text |-> text, scheme |-> scheme, outbound |-> outbound]

parse_share_link(link) ==
    IF link.scheme = ""
    THEN [err |-> Some(err("IMPORT_UNSUPPORTED", "unsupported share link")),
          outbound |-> None]
    ELSE IF link.outbound = None
    THEN [err |-> Some(err("IMPORT_INVALID", "missing server")), outbound |-> None]
    ELSE [err |-> None, outbound |-> link.outbound]

\* Mutant of parse_links: the first line that fails to parse ends the loop.
RECURSIVE parse_links_abort(_, _)
parse_links_abort(links, acc) ==
    IF links = <<>> THEN acc
    ELSE LET link   == Head(links)
             parsed == parse_share_link(link)
         IN  IF link.text \in BlankStrings THEN parse_links_abort(Tail(links), acc)
             ELSE IF parsed.err = None
             THEN parse_links_abort(Tail(links),
                      [acc EXCEPT !.outbounds = Append(@, Unwrap(parsed.outbound))])
             ELSE [acc EXCEPT !.errors =
                       Append(@, link.text \o ": " \o Unwrap(parsed.err))]

\* The loop of import_share_links: blank lines are skipped, the others are
\* parsed one by one into the outbounds and the messages.
RECURSIVE parse_links(_, _)
parse_links(links, acc) ==
    IF links = <<>> THEN acc
    ELSE LET link   == Head(links)
             parsed == parse_share_link(link)
         IN  IF link.text \in BlankStrings THEN parse_links(Tail(links), acc)
             ELSE IF parsed.err = None
             THEN parse_links(Tail(links),
                      [acc EXCEPT !.outbounds = Append(@, Unwrap(parsed.outbound))])
             ELSE parse_links(Tail(links),
                      [acc EXCEPT !.errors =
                           Append(@, link.text \o ": " \o Unwrap(parsed.err))])

\* errors.join("\n")
RECURSIVE join(_, _)
join(strings, separator) ==
    IF strings = <<>> THEN ""
    ELSE IF Len(strings) = 1 THEN strings[1]
    ELSE strings[1] \o separator \o join(Tail(strings), separator)

import_share_links(doc, active, links, io) ==
    LET parsed == parse_links(links, [outbounds |-> <<>>, errors |-> <<>>])
        result == append_outbounds(doc, active, parsed.outbounds, io)
    IN  IF parsed.outbounds = <<>>
        THEN CommandErr(err("IMPORT_FAILED",
                            IF parsed.errors = <<>> THEN "no valid links"
                            ELSE join(parsed.errors, "\n")),
                        doc, active)
        ELSE IF result.err # None THEN result
        ELSE [result EXCEPT !.errors = @ \o parsed.errors]

\* The payload of import_outbound_json: text that is no JSON ("invalid"), an
\* array of values, an object with an "outbounds" key holding an array
\* ("wrapped") or something else ("wrapped_other"), an object without that
\* key ("object", values holds the object itself), or another JSON value.
Payload(kind, values) == [kind |-> kind, values |-> values]

import_outbound_json(doc, active, payload, io) ==
    LET outbounds == IF payload.kind \in {"array", "wrapped", "object"}
                     THEN payload.values ELSE <<>>
    IN  IF payload.kind = "invalid"
        THEN CommandErr(err("IMPORT_INVALID", "not JSON"), doc, active)
        ELSE IF payload.kind = "other"
        THEN CommandErr(err("IMPORT_INVALID", "unsupported JSON format"), doc, active)
        ELSE IF outbounds = <<>>
        THEN CommandErr(err("IMPORT_INVALID", "no outbounds found"), doc, active)
        ELSE append_outbounds(doc, active, outbounds, io)

\* set_active_profile: the tag is stored first, the profile is loaded for
\* the answer afterwards.
set_active_profile(doc, active, tag, io) ==
    LET loaded == load_profile_json(doc, io)
    IN  IF io = "path_error"
        THEN CommandErr(err("PATH_ERROR", "app data dir"), doc, active)
        ELSE IF io = "state_write_error"
        THEN CommandErr(err("PROFILE_INVALID", "write failed"), doc, active)
        ELSE IF loaded.err # None
        THEN CommandErr(Unwrap(loaded.err), loaded.profile, Some(tag))
        ELSE CommandOk(loaded.profile, Some(tag), 0, <<>>)

remove_outbound(doc, active, tag, io) ==
    LET loaded   == load_profile_json(doc, io)
        read     == loaded.profile
        filtered == SelectSeq(outbounds_or_default(read),
                              LAMBDA item : item.tag # Some(tag))
        saved    == [read EXCEPT !.shape = "ok", !.outbounds = filtered]
        cleared  == IF active = Some(tag) /\ io # "state_write_error"
                    THEN None ELSE active
    IN  IF loaded.err # None THEN CommandErr(Unwrap(loaded.err), read, active)
        ELSE IF read.shape = "not_object"
        THEN CommandErr(err("PROFILE_INVALID", "root must be an object"), read, active)
        ELSE IF io = "write_error"
        THEN CommandErr(err("PROFILE_INVALID", "write failed"), read, active)
        ELSE CommandOk(saved, cleared, 0, <<>>)

\* ------------------------------------------------------------------
\* TLS options of an imported endpoint: tls_from_params
\* ------------------------------------------------------------------

\* The query parameters tls_from_params reads for the server name and the
\* insecure flag (it also copies alpn and fp / fingerprint): each key absent
\* (None) or present with a value.
TlsParams(security, tls, sni, server_name, insecure) ==
    [security |-> security, tls |-> tls, sni |-> sni,
     server_name |-> server_name, insecure |-> insecure]

\* str::to_lowercase on the values of security used here.
to_lowercase(value) ==
    CASE value = "TLS" -> "tls"
      [] value = "None" -> "none"
      [] OTHER -> value

\* a.or(b) on Options.
OrElse(a, b) == IF a # None THEN a ELSE b

\* tls_from_params(params, fallback_sni): None when security (or, without
\* it, tls) is absent, empty or "none"; else the tls object.
tls_from_params(params, fallback_sni) ==
    LET chosen   == OrElse(params.security, params.tls)
        security == IF chosen = None THEN "" ELSE to_lowercase(Unwrap(chosen))
        sni      == OrElse(OrElse(params.sni, fallback_sni), params.server_name)
    IN  IF security = "" \/ security = "none" THEN None
        ELSE Some([enabled |-> TRUE, server_name |-> sni,
                   insecure |-> params.insecure \in {Some("1"), Some("true")}])

\* ------------------------------------------------------------------
\* The last lines of the log: read_log_tail
\* ------------------------------------------------------------------

Min(a, b) == IF a <= b THEN a ELSE b

NL == 10
CR == 13

\* The first read window (64 KiB in the program), scaled to a few bytes.
READ_SIZE == 2

\* The limit used when the caller gives none.
DEFAULT_LIMIT == 200

\* str::lines(): the pieces between line feeds, a final piece without a line
\* feed included when it is not empty, each without the carriage return that
\* ends it.
StripCR(line) ==
    IF line # <<>> /\ line[Len(line)] = CR THEN SubSeq(line, 1, Len(line) - 1)
    ELSE line

RECURSIVE lines_from(_, _, _)
lines_from(text, line, acc) ==
    IF text = <<>> THEN IF line = <<>> THEN acc ELSE Append(acc, line)
    ELSE IF Head(text) = NL
    THEN lines_from(Tail(text), <<>>, Append(acc, StripCR(line)))
    ELSE lines_from(Tail(text), Append(line, Head(text)), acc)

lines(text) == lines_from(text, <<>>, <<>>)

\* The loop of read_log_tail: read from file_len - read_size (or 0) to the
\* end, split into lines, stop when there are limit lines or the window is
\* the whole file, else double the window.
RECURSIVE scan_tail(_, _, _)
scan_tail(file, read_size, limit) ==
    LET file_len == Len(file)
        start    == IF file_len > read_size THEN file_len - read_size ELSE 0
        found    == lines(SubSeq(file, start + 1, file_len))
    IN  IF Len(found) >= limit \/ start = 0 THEN found
        ELSE scan_tail(file, Min(read_size * 2, file_len), limit)

\* read_log_tail(app, limit) on the log file (None: no such file): an error
\* when the file cannot be opened, else the lines.
read_log_tail(file, limit, open_ok) ==
    LET n     == IF limit = None THEN DEFAULT_LIMIT
                 ELSE IF Unwrap(limit) < 1 THEN 1 ELSE Unwrap(limit)
        found == scan_tail(Unwrap(file), READ_SIZE, n)
    IN  IF file = None THEN [err |-> None, lines |-> <<>>]
        ELSE IF ~open_ok
        THEN [err |-> Some(err("LOG_ERROR", "open failed")), lines |-> <<>>]
        ELSE IF Unwrap(file) = <<>> THEN [err |-> None, lines |-> <<>>]
        ELSE [err |-> None,
              lines |-> IF Len(found) > n
                        THEN SubSeq(found, Len(found) - n + 1, Len(found))
                        ELSE found]

\* ------------------------------------------------------------------
\* Log rotation: trim_log_file, one system call at a time
\* ------------------------------------------------------------------

\* LOG_MAX_BYTES (8 MiB) and LOG_KEEP_BYTES (6 MiB), scaled to a few bytes
\* with the same order: keep < max.
LOG_MAX_BYTES == 4
LOG_KEEP_BYTES == 3

\* A trim_log_file call: where it is (pc), the length fs::metadata gave it,
\* the bytes it has read, the file as it was when the call began, and what
\* the last call returned ("none" before the first call, "false" for
\* Ok(false), "true" for Ok(true), "error" for Err); during is the history
\* of the bytes the worker has appended since the call took the length.
TrimIdle(ret, before) ==
    [pc |-> "idle", len |-> 0, buf |-> <<>>, before |-> before, ret |-> ret,
     during |-> <<>>]

\* fs::metadata and the comparison with max_bytes.
trim_stat(file, max_bytes, meta_ok) ==
    IF ~meta_ok THEN TrimIdle("false", file)
    ELSE IF Len(file) <= max_bytes THEN TrimIdle("false", file)
    ELSE [pc |-> "read", len |-> Len(file), buf |-> <<>>, before |-> file,
          ret |-> "none", during |-> <<>>]

\* File::open, seek to len - keep, read_to_end: everything from there to the
\* end the file has now.
trim_read(t, file, keep_bytes, read_ok) ==
    LET keep  == Min(keep_bytes, t.len)
        start == IF t.len >= keep THEN t.len - keep ELSE 0
    IN  IF ~read_ok THEN TrimIdle("error", t.before)
        ELSE [t EXCEPT !.pc = "truncate",
                       !.buf = SubSeq(file, start + 1, Len(file))]

\* OpenOptions write + truncate: the file is emptied when the open succeeds.
trim_truncate(t, file, open_ok) ==
    IF ~open_ok THEN [trim |-> TrimIdle("error", t.before), file |-> file]
    ELSE [trim |-> [t EXCEPT !.pc = "write"], file |-> <<>>]

\* write_all at offset 0 of the bytes read; written < Len(buf) is a write
\* that fails after that many bytes.
trim_write(t, file, written) ==
    LET put == SubSeq(t.buf, 1, written)
    IN  [trim |-> TrimIdle(IF written = Len(t.buf) THEN "true" ELSE "error",
                           t.before),
         file |-> put \o SubSeq(file, written + 1, Len(file))]

\* ------------------------------------------------------------------
\* The Log Tailer in detail: its reader, its pending lines, its batches
\* ------------------------------------------------------------------

\* pending.len() >= 50
FLUSH_LINES == 50

\* line.trim_end_matches(['\r', '\n'])
RECURSIVE trim_end_matches(_)
trim_end_matches(line) ==
    IF line # <<>> /\ line[Len(line)] \in {CR, NL}
    THEN trim_end_matches(SubSeq(line, 1, Len(line) - 1))
    ELSE line

\* The loop of read_line calls on the bytes text between the reader's
\* position and the end of the file: each call returns the bytes up to and
\* including the next line feed, or up to the end of the file when there is
\* none; the loop ends with Ok(0) at the end of the file. What is left of
\* each piece after trim_end_matches is kept unless it is empty.
RECURSIVE read_lines(_, _, _)
read_lines(text, line, acc) ==
    LET keep(l) == IF trim_end_matches(l) = <<>> THEN acc
                   ELSE Append(acc, trim_end_matches(l))
    IN  IF text = <<>> THEN IF line = <<>> THEN acc ELSE keep(line)
        ELSE IF Head(text) = NL
        THEN read_lines(Tail(text), <<>>, keep(Append(line, NL)))
        ELSE read_lines(Tail(text), Append(line, Head(text)), acc)

\* One drain of the reader at position pos: the lines found and the
\* position after it. A position at or beyond the end of the file (the
\* file was truncated under the reader) reads nothing and stays.
drain(file, pos) ==
    IF pos >= Len(file) THEN [lines |-> <<>>, pos |-> pos]
    ELSE [lines |-> read_lines(SubSeq(file, pos + 1, Len(file)), <<>>, <<>>),
          pos |-> Len(file)]

\* The Log Tailer thread: where it is (pc), whether the last
\* open_log_reader call gave a reader (opened), the position of its reader,
\* its pending lines and the batches it has emitted; written is the history
\* of the bytes the worker has appended since the thread opened the file.
Tailer(pc, opened, pos, pending, batches, written) ==
    [pc |-> pc, opened |-> opened, pos |-> pos, pending |-> pending,
     batches |-> batches, written |-> written]

\* open_log_reader before the loop: a reader at the end of the file, or the
\* end of the thread.
tailer_open(t, file, opened) ==
    IF opened THEN [t EXCEPT !.pc = "sleep", !.opened = TRUE, !.pos = Len(file)]
    ELSE [t EXCEPT !.pc = "ended", !.opened = FALSE]

\* After the sleep: the token check under the lock, then the rotation when
\* two seconds have passed since the last one (due), else the drain.
tailer_check(t, superseded, due) ==
    IF superseded THEN [t EXCEPT !.pc = "ended"]
    ELSE IF due THEN [t EXCEPT !.pc = "trim"]
    ELSE [t EXCEPT !.pc = "drain"]

\* After trim_log_file returned ret: on Ok(true) the file is opened again
\* and the new reader, at the end of the file, replaces the old one; when
\* that open fails the old reader is kept.
tailer_reopen(t, file, ret, opened) ==
    IF ret # "true" THEN [t EXCEPT !.pc = "drain"]
    ELSE IF opened
    THEN [t EXCEPT !.pc = "drain", !.opened = TRUE, !.pos = Len(file)]
    ELSE [t EXCEPT !.pc = "drain", !.opened = FALSE]

\* The drain loop: a read error ends the thread.
tailer_drain(t, file, read_ok) ==
    IF ~read_ok THEN [t EXCEPT !.pc = "ended"]
    ELSE [t EXCEPT !.pc = "flush",
                   !.pending = @ \o drain(file, t.pos).lines,
                   !.pos = drain(file, t.pos).pos]

\* The flush: a batch when there are pending lines and there are 50 of them
\* or 250 ms have passed since the last batch (elapsed).
tailer_flush(t, elapsed) ==
    IF t.pending # <<>> /\ (Len(t.pending) >= FLUSH_LINES \/ elapsed)
    THEN [t EXCEPT !.pc = "sleep", !.batches = Append(@, t.pending),
                   !.pending = <<>>]
    ELSE [t EXCEPT !.pc = "sleep"]

\* ------------------------------------------------------------------ state
VARIABLES
    profile,      \* profile.json
    active_tag,   \* profile.state.json: ProfileState.active_tag
    app_state,    \* app.state.json: AppState.last_mode
    config_file,  \* singbox.generated.json (None: not written yet)
    state,        \* the shared ProxyState behind the mutex
    proc,         \* the worker processes spawned so far, in spawn order
    monitor,      \* the spawn_monitor thread started with each worker
    tailer,       \* the spawn_log_tailer thread started with each worker
    exit_event,   \* the "proxy-exited" payload each Monitor has emitted
    late,         \* a task acted after a later apply call had returned
    apply_ret,    \* the last apply_mode call: its result and the tasks started
    synth_ret,    \* the last direct build_config call: its inputs and result
    import_ret,   \* the last profile command: its inputs and result
    log_file,     \* singbox.log: the bytes of the file
    trim,         \* the trim_log_file call of the Log Tailer: its position
    call,         \* the apply_mode call under way: its stage and the lock
    tail,         \* the Log Tailer in detail: reader, pending lines, batches
    tail_ret,     \* the last read_log_tail call: its inputs and result
    tls_ret       \* the last tls_from_params call: its inputs and result

vars == << profile, active_tag, app_state, config_file, state, proc, monitor,
           tailer, exit_event, late, apply_ret, synth_ret, import_ret,
           log_file, trim, call, tail, tail_ret, tls_ret >>

\* The workers (and their Monitor and Log Tailer), numbered in spawn order.
Slots == 1..MaxToken
Modes == {"Off", "Selected", "Full"}
\* status.code(): Some(code), or None when the process ended without one.
ExitCodes == {Some(1), None}

\* ProxyState::default()
ProxyStateDefault ==
    [child |-> None, mode |-> "Off", last_exit |-> None, last_error |-> None,
     config_path |-> None, watch_token |-> 0]

\* A worker process: not spawned yet, running, ended on its own but not
\* waited for (with its status.code()), waited for after it ended on its own,
\* or killed while running and waited for.
Unborn == [st |-> "unborn", code |-> None]
Alive == [st |-> "alive", code |-> None]
Exited(code) == [st |-> "exited", code |-> code]
Reaped(code) == [st |-> "reaped", code |-> code]
Killed == [st |-> "killed", code |-> None]

\* child.try_wait(): "running" while the process lives; once it has ended,
\* "exited" (Ok(Some(status))) or, when the wait itself fails, "error".
try_wait(procs, pid, wait_fails) ==
    IF procs[pid].st = "alive" THEN "running"
    ELSE IF wait_fails THEN "error" ELSE "exited"

\* The process table after try_wait on the handle of st found the child
\* ended: the handle is dropped and the process is gone.
reap(st, procs) ==
    IF st.child # None /\ procs[Unwrap(st.child)].st = "exited"
    THEN [procs EXCEPT ![Unwrap(st.child)] = Reaped(@.code)]
    ELSE procs

\* Mutant of refresh_state: the handle of an ended worker is dropped and the
\* mode is left as it is.
refresh_state_keeps_mode(st, procs, wait_fails) ==
    IF st.child = None THEN st
    ELSE LET polled == try_wait(procs, Unwrap(st.child), wait_fails)
         IN  IF polled = "exited"
             THEN [st EXCEPT !.last_exit = procs[Unwrap(st.child)].code,
                             !.child = None]
             ELSE IF polled = "error"
             THEN [st EXCEPT !.last_exit = Some(-1),
                             !.last_error = Some("os error"),
                             !.child = None]
             ELSE st

refresh_state(st, procs, wait_fails) ==
    IF st.child = None THEN st
    ELSE LET polled == try_wait(procs, Unwrap(st.child), wait_fails)
         IN  IF polled = "exited"
             THEN [st EXCEPT !.last_exit = procs[Unwrap(st.child)].code,
                             !.child = None, !.mode = "Off"]
             ELSE IF polled = "error"
             THEN [st EXCEPT !.last_exit = Some(-1),
                             !.last_error = Some("os error"),
                             !.child = None, !.mode = "Off"]
             ELSE st

\* current_status: refresh_state, then the snapshot.
current_status(st, procs, cfg, wait_fails) ==
    LET now == refresh_state(st, procs, wait_fails)
    IN  [running |-> now.child # None, mode |-> now.mode, pid |-> now.child,
         last_exit |-> now.last_exit, last_error |-> now.last_error,
         config_path |-> cfg # None]

\* Mutant of kill_child: the handle is dropped without kill() and wait().
kill_child_dropped(st, procs) == procs

\* if let Some(mut child) = guard.child.take() { kill(); wait(); }
kill_child(st, procs) ==
    IF st.child = None THEN procs
    ELSE [procs EXCEPT ![Unwrap(st.child)] =
              IF @.st = "alive" THEN Killed ELSE Reaped(@.code)]

\* Mutant of bump: the token is left as it is.
bump_same(token) == token

\* guard.watch_token.wrapping_add(1) (u64: no wrap within MaxToken)
bump(token) == token + 1

\* What the environment does during one apply_mode call: the file system
\* (io), the stage after build_config that fails (stage, "none": none), the
\* new worker when apply_mode polls it before returning (early) and whether
\* that poll fails (wait_fails).
Outcome(io, stage, early, wait_fails) ==
    [io |-> io, stage |-> stage, early |-> early, wait_fails |-> wait_fails]

Stages == {"log_path", "exe", "log_open", "clone", "spawn"}

Outcomes ==
    { Outcome(io, "none", Alive, FALSE) : io \in {"path_error", "write_error"} }
    \cup { Outcome("ok", stage, Alive, FALSE) : stage \in Stages }
    \cup { Outcome("ok", "none", Alive, FALSE) }
    \cup { Outcome("ok", "none", Exited(c), w) : c \in ExitCodes, w \in BOOLEAN }

\* The error of each stage of apply_mode after build_config.
stage_error(stage) ==
    CASE stage = "log_path" -> err("PATH_ERROR", "app data dir")
      [] stage = "exe"      -> err("SINGBOX_MISSING", "sing-box.exe")
      [] stage = "log_open" -> err("LOG_ERROR", "open failed")
      [] stage = "clone"    -> err("LOG_ERROR", "try_clone failed")
      [] stage = "spawn"    -> err("START_FAILED", "spawn failed")

\* Mutant of stage_recorded: a spawn failure is returned but not stored.
stage_recorded_no_spawn(stage) == stage \in {"exe", "log_open"}

\* The stages whose error apply_mode stores in guard.last_error.
stage_recorded(stage) == stage \in {"exe", "log_open", "spawn"}

\* What a call returns: Err(message) or Ok(status); with it, the requested
\* mode, the place of the failure ("none", "build_config" or the stage) and
\* the slot of the worker and tasks it started.
ApplyErr(m, at, message) ==
    [mode |-> m, at |-> at, err |-> message, status |-> None, started |-> None]
ApplyOk(m, status, started) ==
    [mode |-> m, at |-> "none", err |-> None, status |-> Some(status),
     started |-> started]

\* Mutant of apply_off: the call returns the snapshot without a new token.
apply_off_same_token(s1, killed, cfg, env) ==
    [state |-> refresh_state(s1, killed, env.wait_fails),
     proc |-> reap(s1, killed), config |-> cfg,
     ret |-> ApplyOk("Off", current_status(s1, killed, cfg, env.wait_fails),
                     None)]

\* apply_mode with mode Off, after the kill: bump the token and return.
apply_off(s1, killed, cfg, env) ==
    LET s2 == [s1 EXCEPT !.watch_token = bump(s1.watch_token)]
    IN  [state |-> refresh_state(s2, killed, env.wait_fails),
         proc |-> reap(s2, killed), config |-> cfg,
         ret |-> ApplyOk("Off", current_status(s2, killed, cfg, env.wait_fails),
                         None)]

\* apply_mode after a successful build_config: the later stages, the spawn
\* of worker pid, the new token and the tasks.
apply_start(s1, killed, config, m, env, pid) ==
    LET token  == bump(s1.watch_token)
        s2     == [s1 EXCEPT !.child = Some(pid), !.mode = m,
                             !.config_path = Some("singbox.generated.json"),
                             !.last_exit = None, !.watch_token = token]
        procs2 == [killed EXCEPT ![pid] = env.early]
    IN  IF env.stage # "none"
        THEN [state |-> IF stage_recorded(env.stage)
                        THEN [s1 EXCEPT !.last_error = Some(stage_error(env.stage))]
                        ELSE s1,
              proc |-> killed, config |-> config,
              ret |-> ApplyErr(m, env.stage, Some(stage_error(env.stage)))]
        ELSE [state |-> refresh_state(s2, procs2, env.wait_fails),
              proc |-> reap(s2, procs2), config |-> config,
              ret |-> ApplyOk(m, current_status(s2, procs2, config,
                                                env.wait_fails), Some(pid))]

\* apply_mode(app, state, mode, app_rules), from taking the lock to its
\* return: the values it leaves behind and what it returns.
apply_mode(st, procs, doc, active, cfg, m, app_rules, env, pid) ==
    LET killed == kill_child(st, procs)
        s1     == [st EXCEPT !.child = None, !.mode = "Off", !.last_error = None]
        built  == build_config(doc, active, m, app_rules, env.io)
    IN  IF m = "Off"
        THEN [profile |-> doc] @@ apply_off(s1, killed, cfg, env)
        ELSE IF built.err # None
        THEN [state |-> [s1 EXCEPT !.last_error = built.err], proc |-> killed,
              profile |-> built.profile, config |-> cfg,
              ret |-> ApplyErr(m, "build_config", built.err)]
        ELSE [profile |-> built.profile]
             @@ apply_start(s1, killed, built.config, m, env, pid)

\* ---------------------------------------------------------------- actions
Spawned == { i \in Slots : proc[i].st # "unborn" }

\* The workers whose Monitor and Log Tailer were started by a call before
\* the last apply_mode call.
Earlier ==
    Spawned \ (IF apply_ret = None THEN {} ELSE Unwrap(apply_ret).started)

\* A thread that has not returned.
MonitorActive(i) == monitor[i].pc \in {"sleep", "emit"}
TailerActive(i) == tailer[i].pc \in {"open", "sleep", "pass"}

\* set_mode / apply_mode: one call, atomic for every user of the lock.
ApplyMode(m, app_rules, env) ==
    /\ state.watch_token < MaxToken
    /\ Cardinality(Spawned) < MaxToken
    /\ \E r \in {apply_mode(state, proc, profile, active_tag, config_file, m,
                            app_rules, env, Cardinality(Spawned) + 1)} :
           /\ state' = r.state
           /\ proc' = r.proc
           /\ profile' = r.profile
           /\ config_file' = r.config
           /\ apply_ret' = Some(r.ret)
           /\ monitor' = IF r.ret.started = None THEN monitor
                         ELSE [monitor EXCEPT ![Unwrap(r.ret.started)] =
                                   [pc |-> "sleep", token |-> r.state.watch_token,
                                    code |-> None]]
           /\ tailer' = IF r.ret.started = None THEN tailer
                        ELSE [tailer EXCEPT ![Unwrap(r.ret.started)] =
                                  [pc |-> "open", token |-> r.state.watch_token]]
    /\ app_state' = IF env.io = "ok" THEN m ELSE app_state
    /\ UNCHANGED << active_tag, exit_event, late, synth_ret, import_ret,
                    log_file, trim,
                    call, tail, tail_ret, tls_ret >>

\* get_status: refresh_state and a snapshot, under the lock.
GetStatus(wait_fails) ==
    /\ state' = refresh_state(state, proc, wait_fails)
    /\ proc' = reap(state, proc)
    /\ UNCHANGED << profile, active_tag, app_state, config_file, monitor,
                    tailer, exit_event, late, apply_ret, synth_ret, import_ret,
                    log_file, trim,
                    call, tail, tail_ret, tls_ret >>

\* The worker ends on its own.
WorkerExit(p, code) ==
    /\ proc[p].st = "alive"
    /\ proc' = [proc EXCEPT ![p] = Exited(code)]
    /\ UNCHANGED << profile, active_tag, app_state, config_file, state, monitor,
                    tailer, exit_event, late, apply_ret, synth_ret, import_ret,
                    log_file, trim,
                    call, tail, tail_ret, tls_ret >>

\* Mutant of stale: a task never finds its token superseded.
stale_never(st, token) == FALSE

\* guard.watch_token != token
stale(st, token) == st.watch_token # token

\* One pass of the Monitor's critical section: the state it leaves, where
\* the thread goes next ("abandoned": return on a token mismatch, "idle":
\* return because no handle is recorded) and the exit_code it carries out of
\* the lock.
monitor_poll(st, procs, token, wait_fails) ==
    IF stale(st, token) THEN [state |-> st, pc |-> "abandoned", code |-> None]
    ELSE IF st.child = None THEN [state |-> st, pc |-> "idle", code |-> None]
    ELSE LET polled == try_wait(procs, Unwrap(st.child), wait_fails)
             code   == procs[Unwrap(st.child)].code
         IN  IF polled = "exited"
             THEN [state |-> [st EXCEPT !.last_exit = code, !.child = None,
                                        !.mode = "Off", !.last_error = None],
                   pc |-> IF code # None THEN "emit" ELSE "sleep",
                   code |-> code]
             ELSE IF polled = "error"
             THEN [state |-> [st EXCEPT !.last_exit = Some(-1),
                                        !.last_error = Some("os error"),
                                        !.child = None, !.mode = "Off"],
                   pc |-> "emit", code |-> Some(-1)]
             ELSE [state |-> st, pc |-> "sleep", code |-> None]

\* Monitor: sleep 750 ms, then the critical section.
MonitorPoll(i, wait_fails) ==
    /\ monitor[i].pc = "sleep"
    /\ \E r \in {monitor_poll(state, proc, monitor[i].token, wait_fails)} :
           /\ state' = r.state
           /\ proc' = IF r.state = state THEN proc ELSE reap(state, proc)
           /\ monitor' = [monitor EXCEPT ![i].pc = r.pc, ![i].code = r.code]
    /\ UNCHANGED << profile, active_tag, app_state, config_file, tailer,
                    exit_event, late, apply_ret, synth_ret, import_ret,
                    log_file, trim,
                    call, tail, tail_ret, tls_ret >>

\* Task i emits a notification or rotates the log: late turns TRUE when a
\* later apply call has returned by then.
Acts(i) == late \/ i \in Earlier

\* Monitor: app.emit("proxy-exited", ..) after the lock is released; return.
MonitorEmit(i) ==
    /\ monitor[i].pc = "emit"
    /\ exit_event' = [exit_event EXCEPT ![i] = Some([code |-> monitor[i].code])]
    /\ late' = Acts(i)
    /\ monitor' = [monitor EXCEPT ![i].pc = "emitted", ![i].code = None]
    /\ UNCHANGED << profile, active_tag, app_state, config_file, state, proc,
                    tailer, apply_ret, synth_ret, import_ret,
                    log_file, trim,
                    call, tail, tail_ret, tls_ret >>

\* Log Tailer: open_log_reader before the loop; None ends the thread.
TailOpen(i, opened) ==
    /\ tailer[i].pc = "open"
    /\ tailer' = [tailer EXCEPT ![i].pc = IF opened THEN "sleep" ELSE "failed"]
    /\ UNCHANGED << profile, active_tag, app_state, config_file, state, proc,
                    monitor, exit_event, late, apply_ret, synth_ret, import_ret,
                    log_file, trim,
                    call, tail, tail_ret, tls_ret >>

\* Where the tailer goes after its token check under the lock.
tail_check(st, token) == IF stale(st, token) THEN "abandoned" ELSE "pass"

\* Log Tailer: sleep 200 ms, then compare the token under the lock.
TailCheck(i) ==
    /\ tailer[i].pc = "sleep"
    /\ tailer' = [tailer EXCEPT ![i].pc = tail_check(state, tailer[i].token)]
    /\ UNCHANGED << profile, active_tag, app_state, config_file, state, proc,
                    monitor, exit_event, late, apply_ret, synth_ret, import_ret,
                    log_file, trim,
                    call, tail, tail_ret, tls_ret >>

\* Log Tailer: the rest of the pass, outside the lock: the rotation when it
\* is due (rotated), the drain of the new lines (read_ok: no read error) and
\* the flush of the pending lines when a threshold is reached (emits).
TailPass(i, rotated, read_ok, emits) ==
    /\ tailer[i].pc = "pass"
    /\ tailer' = [tailer EXCEPT ![i].pc = IF read_ok THEN "sleep" ELSE "failed"]
    /\ late' = IF rotated \/ (read_ok /\ emits) THEN Acts(i) ELSE late
    /\ UNCHANGED << profile, active_tag, app_state, config_file, state, proc,
                    monitor, exit_event, apply_ret, synth_ret, import_ret,
                    log_file, trim,
                    call, tail, tail_ret, tls_ret >>

\* ---------------------------------------------------------- specification
\* The app rules the supervisor is called with: none, or one proxy-mode rule
\* for the process name "a".
AppliedRules == { <<>>, << AppRule(<< 97 >>, "proxy") >> }

\* The profile documents the supervisor starts from.
StartProfiles == {NoProfile, ProfileDoc("no_outbounds", <<>>)}

SupervisorInit ==
    /\ app_state = "Off"
    /\ config_file = None
    /\ state = ProxyStateDefault
    /\ proc = [p \in Slots |-> Unborn]
    /\ monitor = [i \in Slots |-> [pc |-> "none", token |-> 0, code |-> None]]
    /\ tailer = [i \in Slots |-> [pc |-> "none", token |-> 0]]
    /\ exit_event = [i \in Slots |-> None]
    /\ late = FALSE
    /\ apply_ret = None
    /\ synth_ret = None
    /\ import_ret = None
    /\ log_file = <<>>
    /\ trim = TrimIdle("none", <<>>)
    /\ call = None
    /\ tail = None
    /\ tail_ret = None
    /\ tls_ret = None

Init ==
    /\ profile \in StartProfiles
    /\ active_tag = None
    /\ SupervisorInit

MonitorStep(i) ==
    \/ \E wait_fails \in BOOLEAN : MonitorPoll(i, wait_fails)
    \/ MonitorEmit(i)

TailStep(i) ==
    \/ \E opened \in BOOLEAN : TailOpen(i, opened)
    \/ TailCheck(i)
    \/ \E rotated \in BOOLEAN, read_ok \in BOOLEAN, emits \in BOOLEAN :
           TailPass(i, rotated, read_ok, emits)

Next ==
    \/ \E m \in Modes, app_rules \in AppliedRules, env \in Outcomes :
           ApplyMode(m, app_rules, env)
    \/ \E wait_fails \in BOOLEAN : GetStatus(wait_fails)
    \/ \E p \in Slots, code \in ExitCodes : WorkerExit(p, code)
    \/ \E i \in Slots : MonitorStep(i)
    \/ \E i \in Slots : TailStep(i)

Spec == Init /\ [][Next]_vars

\* The threads sleep for a bounded time and the lock is always released:
\* every thread that can take a step eventually takes one.
FairSpec ==
    /\ Spec
    /\ \A i \in Slots : WF_vars(MonitorStep(i)) /\ WF_vars(TailStep(i))

\* ------------------------------------------------- worker and generations
LiveWorkers == { p \in Slots : proc[p].st = "alive" }

LastApply == Unwrap(apply_ret)

\* C1: at most one worker process is alive at any time, and a live worker is
\* the one whose handle the shared state records; a worker spawned after
\* another one finds it killed and waited for.
C1_OneWorker ==
    /\ Cardinality(LiveWorkers) <= 1
    /\ \A p \in LiveWorkers : state.child = Some(p)
    /\ \A p, q \in Slots :
           p < q /\ proc[q].st # "unborn" => proc[p].st \in {"killed", "reaped"}

\* A second worker runs after apply_mode killed and waited for the first.
C1_Witness ==
    /\ proc[1] = Killed
    /\ proc[2] = Alive
    /\ state.child = Some(2)

\* C2: a step of a Monitor whose captured token differs from the current
\* token leaves the shared state as it is, and the poll that finds the
\* mismatch ends the thread.
C2_StaleMonitorInert ==
    [][\A i \in Slots :
           (/\ monitor[i].pc # "none"
            /\ monitor[i].token # state.watch_token
            /\ monitor'[i] # monitor[i])
           => /\ state' = state
              /\ monitor[i].pc = "sleep" => monitor'[i].pc = "abandoned"]_vars

\* A Monitor returned on the mismatch while the handle of a newer worker,
\* already ended, was recorded.
C2_Witness ==
    \E i \in Slots :
        /\ monitor[i].pc = "abandoned"
        /\ state.child # None
        /\ Unwrap(state.child) # i
        /\ proc[Unwrap(state.child)].st = "exited"

\* C3, as stated: no task started by an earlier apply call emits a
\* notification or rotates the log once a later apply call has returned.
C3_AsStated == ~late

\* The tasks that hold the current token.
CurrentMonitors ==
    { i \in Slots : MonitorActive(i) /\ monitor[i].token = state.watch_token }
CurrentTailers ==
    { i \in Slots : TailerActive(i) /\ tailer[i].token = state.watch_token }

\* C4: at no time do two Monitors or two Log Tailers hold the current token,
\* a task is abandoned only on a superseded token, and a Monitor or Log
\* Tailer whose token has been superseded eventually terminates.
C4_OldPairStops ==
    /\ [](/\ Cardinality(CurrentMonitors) <= 1
          /\ Cardinality(CurrentTailers) <= 1
          /\ \A i \in Slots :
                 /\ monitor[i].pc = "abandoned"
                        => monitor[i].token # state.watch_token
                 /\ tailer[i].pc = "abandoned"
                        => tailer[i].token # state.watch_token)
    /\ \A i \in Slots :
           /\ (MonitorActive(i) /\ monitor[i].token # state.watch_token)
                  ~> ~MonitorActive(i)
           /\ (TailerActive(i) /\ tailer[i].token # state.watch_token)
                  ~> ~TailerActive(i)

\* After two successful starts the first pair has returned on the mismatch
\* and the second pair, holding the current token, is active.
C4_Witness ==
    /\ monitor[1].pc = "abandoned"
    /\ tailer[1].pc = "abandoned"
    /\ CurrentMonitors = {2}
    /\ CurrentTailers = {2}

\* C5, as stated: the token never decreases, and every step that kills a
\* live worker or spawns a worker leaves the token strictly greater.
C5_AsStated ==
    [][/\ state'.watch_token >= state.watch_token
       /\ (\E p \in Slots :
               \/ proc[p].st = "alive" /\ proc'[p].st = "killed"
               \/ proc[p].st = "unborn" /\ proc'[p].st # "unborn")
          => state'.watch_token > state.watch_token]_vars

\* C6: after apply_mode failed in build_config or in the spawn, the error it
\* returned is the recorded last error and the one every status query
\* reports, no handle is recorded, the mode is Off and no worker is alive;
\* and no worker is spawned except by an apply_mode call.
C6_FailureRecorded ==
    /\ [](apply_ret # None /\ LastApply.at \in {"build_config", "spawn"}
          => /\ LastApply.err # None
             /\ state.last_error = LastApply.err
             /\ state.child = None
             /\ state.mode = "Off"
             /\ LiveWorkers = {}
             /\ \A w \in BOOLEAN :
                    LET s == current_status(state, proc, config_file, w)
                    IN  s.last_error = LastApply.err /\ ~s.running
                        /\ s.mode = "Off")
    /\ [][apply_ret' = apply_ret
          => \A p \in Slots : proc[p].st = "unborn" => proc'[p].st = "unborn"]_vars

\* A spawn failure after the previous worker was killed, with the first
\* Monitor polling afterwards.
C6_Witness ==
    /\ apply_ret # None
    /\ LastApply.at = "spawn"
    /\ proc[1] = Killed
    /\ monitor[1].pc = "idle"

\* C7, as stated, for a worker that has an exit code and was running when
\* the call that started it returned: once the Monitor of the current
\* generation has returned after the worker ended on its own, the state has
\* no handle, mode Off and the exit code, and the notification was emitted.
C7_AsStated ==
    \A i \in Slots :
        (/\ apply_ret # None
         /\ LastApply.started = Some(i)
         /\ Unwrap(LastApply.status).running
         /\ proc[i].st \in {"exited", "reaped"}
         /\ proc[i].code # None
         /\ ~MonitorActive(i))
        => /\ state.child = None
           /\ state.mode = "Off"
           /\ exit_event[i] # None

\* C8: an apply_mode call with mode Off kills every live worker, leaves no
\* handle and no last error, adds one to the token, leaves the generated
\* config and the profile as they are, spawns no worker, starts no Monitor
\* and no Log Tailer, and returns a snapshot with running false and mode Off.
C8_ApplyOff ==
    [][\A app_rules \in AppliedRules, env \in Outcomes :
           ApplyMode("Off", app_rules, env)
           => /\ \A p \in Slots :
                     /\ proc[p].st = "alive" => proc'[p].st = "killed"
                     /\ proc[p].st = "unborn" => proc'[p].st = "unborn"
              /\ state'.child = None
              /\ state'.mode = "Off"
              /\ state'.last_error = None
              /\ state'.watch_token = state.watch_token + 1
              /\ config_file' = config_file
              /\ profile' = profile
              /\ monitor' = monitor
              /\ tailer' = tailer
              /\ apply_ret' # None
              /\ Unwrap(apply_ret').err = None
              /\ Unwrap(apply_ret').started = None
              /\ ~Unwrap(Unwrap(apply_ret').status).running
              /\ Unwrap(Unwrap(apply_ret').status).mode = "Off"]_vars

\* apply_mode with mode Off returned after it killed a running worker, whose
\* Monitor is left with a superseded token.
C8_Witness ==
    /\ apply_ret # None
    /\ LastApply.mode = "Off"
    /\ \E p \in Slots : proc[p] = Killed /\ monitor[p].token < state.watch_token
    /\ state.last_error = None

\* ------------------------------------------------- synthesis on its own
\* The tags and endpoints of the enumerated profile documents.
TagInputs ==
    {None, Some("proxy"), Some("direct"), Some("a"), Some("b"),
     Some("proxy-origin")}

OutboundInputs ==
    { Outbound("selector", Some("proxy"), members, None) :
          members \in {None, Some(<< "a", "b" >>)} }
    \cup { Outbound("selector", Some("a"), None, None) }
    \cup { Outbound("socks", tag, None, None) : tag \in TagInputs }
    \cup { direct_outbound }

ProfileInputs ==
    { ProfileDoc("ok", obs) :
          obs \in UNION { [1..n -> OutboundInputs] : n \in 0..MaxOutbounds } }
    \cup { ProfileDoc(shape, <<>>) :
               shape \in {"unparsable", "not_object", "no_outbounds", "not_array"} }
    \cup { NoProfile }

ActiveInputs == {None, Some("proxy"), Some("direct"), Some("a"), Some("b")}

SynthInit ==
    /\ profile \in ProfileInputs
    /\ active_tag \in ActiveInputs
    /\ SupervisorInit

\* build_config(app, mode, rules) on the stored profile and active tag,
\* called until it succeeds.
Synthesize(m, rules, io) ==
    /\ IF synth_ret = None THEN TRUE ELSE Unwrap(synth_ret).err # None
    /\ \E r \in {build_config(profile, active_tag, m, rules, io)} :
        /\ profile' = r.profile
        /\ config_file' = IF r.config = None THEN config_file ELSE r.config
        /\ synth_ret' = Some([mode |-> m, rules |-> rules, doc |-> profile,
                              err |-> r.err, config |-> r.config])
        /\ UNCHANGED << active_tag, app_state, state, proc, monitor, tailer,
                        exit_event, late, apply_ret, import_ret,
                    log_file, trim,
                        call, tail, tail_ret, tls_ret >>

SynthNext ==
    \E m \in Modes, io \in {"ok", "write_error"} : Synthesize(m, <<>>, io)

SynthSpec == SynthInit /\ [][SynthNext]_vars

\* The last build_config call succeeded: its input is the stored profile.
Synthesized == synth_ret # None /\ Unwrap(synth_ret).err = None
SynthOut == Unwrap(Unwrap(synth_ret).config).outbounds

\* The first endpoint of the stored profile tagged "proxy" (0: none).
ProxyAt ==
    IF \E i \in 1..Len(profile.outbounds) : profile.outbounds[i].tag = Some("proxy")
    THEN CHOOSE i \in 1..Len(profile.outbounds) :
             /\ profile.outbounds[i].tag = Some("proxy")
             /\ \A j \in 1..(i - 1) : profile.outbounds[j].tag # Some("proxy")
    ELSE 0

\* The tags of obs other than "proxy" and "direct", in the order of obs.
MemberTags(obs) ==
    TagsOf(SelectSeq(obs, LAMBDA o :
        o.tag \notin {None, Some("proxy"), Some("direct")}))

\* The stored active tag names an endpoint of the stored profile.
ActiveResolves ==
    /\ active_tag # None
    /\ \E i \in 1..Len(profile.outbounds) : profile.outbounds[i].tag = active_tag

SelectorCase == Synthesized /\ ProxyAt # 0 /\ profile.outbounds[ProxyAt].type = "selector"

ConcreteCase == Synthesized /\ ProxyAt # 0 /\ profile.outbounds[ProxyAt].type # "selector"

\* The first unused tag among proxy-origin, proxy-origin-2, proxy-origin-3, ...
OriginTag(k) == IF k = 1 THEN "proxy-origin" ELSE "proxy-origin-" \o ToString(k)

FreshOrigin(used) ==
    OriginTag(CHOOSE k \in 1..(Cardinality(used) + 1) :
                  /\ OriginTag(k) \notin used
                  /\ \A j \in 1..(k - 1) : OriginTag(j) \in used)

\* The concrete proxy endpoint is renamed and a selector tagged proxy with
\* the given default is appended after the stored endpoints.
Wrapped(default) ==
    LET renamed == FreshOrigin(SeqToSet(TagsOf(profile.outbounds)))
        n       == Len(profile.outbounds)
    IN  /\ Len(SynthOut) >= n + 1
        /\ SynthOut[ProxyAt] = [profile.outbounds[ProxyAt] EXCEPT !.tag = Some(renamed)]
        /\ \A i \in 1..n : i # ProxyAt => SynthOut[i] = profile.outbounds[i]
        /\ SynthOut[n + 1].type = "selector"
        /\ SynthOut[n + 1].tag = Some("proxy")
        /\ SynthOut[n + 1].outbounds =
               Some(MemberTags(SubSeq(SynthOut, 1, n)))
        /\ SynthOut[n + 1].default =
               IF default = None THEN Some(renamed) ELSE default

DirectAt(obs) ==
    { i \in 1..Len(obs) : obs[i].type = "direct" /\ obs[i].tag = Some("direct") }

\* C11, as stated: after a successful synthesis the generated list holds an
\* endpoint of type direct tagged direct; exactly one is appended when the
\* profile has no endpoint tagged direct, and none is appended when the
\* profile has an endpoint of type direct tagged direct.
C11_AsStated ==
    Synthesized =>
        /\ DirectAt(SynthOut) # {}
        /\ "direct" \notin SeqToSet(TagsOf(profile.outbounds))
               => /\ Cardinality(DirectAt(SynthOut)) = 1
                  /\ DirectAt(SynthOut) = {Len(SynthOut)}
        /\ DirectAt(profile.outbounds) # {}
               => DirectAt(SynthOut) = DirectAt(profile.outbounds)

\* The last build_config call read a stored profile that parses, is an
\* object and has an "outbounds" array.
SynthRead ==
    /\ synth_ret # None
    /\ Unwrap(synth_ret).doc = profile
    /\ profile.exists
    /\ profile.shape = "ok"
SynthError == Unwrap(synth_ret).err

OutboundsMissing ==
    { Some(err("PROFILE_OUTBOUNDS_MISSING", detail)) :
          detail \in {"missing outbounds", "no outbounds", "no proxy outbounds"} }

\* The concrete proxy endpoint is renamed, and so becomes a member.
WouldWrap ==
    /\ ProxyAt # 0
    /\ profile.outbounds[ProxyAt].type # "selector"
    /\ ActiveResolves
    /\ Len(TagsOf(profile.outbounds)) > 1

MaxRules == 2

\* The paths of the enumerated app rules: empty, blank, the names a and b,
\* " a", "a" in quotes, and the paths a/ and b\a.
PathInputs ==
    { <<>>, << 32 >>, << 97 >>, << 98 >>, << 32, 97 >>, << QUOTE, 97, QUOTE >>,
      << 97, SLASH >>, << 98, BACKSLASH, 97 >> }

RuleInputs ==
    UNION { [1..n -> { AppRule(path, mode) :
                           path \in PathInputs, mode \in {"proxy", "direct"} }] :
            n \in 0..MaxRules }

\* The stored profiles: the default one, and the default one carrying a
\* route section of its own.
RouteProfiles ==
    { default_profile,
      ProfileWithRoute(default_profile, [rules |-> <<>>, final |-> "a"]) }

RouteInit ==
    /\ profile \in RouteProfiles
    /\ active_tag = None
    /\ SupervisorInit

RouteNext == \E m \in Modes, rules \in RuleInputs : Synthesize(m, rules, "ok")

RouteSpec == RouteInit /\ [][RouteNext]_vars

SynthMode == Unwrap(synth_ret).mode
SynthRoute == Unwrap(Unwrap(synth_ret).config).route

\* The processes the caller listed with one mode, as names or as paths.
Listed(mode, names) ==
    LET rules == Unwrap(synth_ret).rules
    IN  { trim_path(rules[i].path) :
              i \in { j \in 1..Len(rules) :
                          /\ rules[j].mode = mode
                          /\ trim_path(rules[j].path) # <<>>
                          /\ is_process_name(trim_path(rules[j].path)) = names } }

\* seq lists the elements of set, each once, in increasing order.
Enumerates(seq, set) ==
    /\ SeqToSet(seq) = set
    /\ \A i, j \in 1..Len(seq) : i < j => StrLess(seq[i], seq[j])

\* rule sends the listed processes of one mode and class to outbound.
ProcessRule(rule, kind, mode, names, outbound) ==
    /\ rule.kind = kind
    /\ rule.outbound = Some(outbound)
    /\ Enumerates(rule.processes, Listed(mode, names))

Count(mode, names) == IF Listed(mode, names) = {} THEN 0 ELSE 1

\* C12: the generated rule list is the DNS hijack on port 53, the bypass
\* suffix to direct, the bypass rule-set to direct, the local inbound to
\* proxy, then the direct-mode app rules (paths, then names) and, in Selected
\* only, the proxy-mode app rules (paths, then names); the final outbound is
\* direct in Selected and proxy in Full; a process listed both ways in
\* Selected meets its direct rule first.
C12_RuleOrder ==
    (Synthesized /\ SynthMode # "Off") =>
        LET route == Unwrap(SynthRoute)
            R     == route.rules
            dp    == Count("direct", FALSE)
            dn    == Count("direct", TRUE)
            pp    == IF SynthMode = "Selected" THEN Count("proxy", FALSE) ELSE 0
            pn    == IF SynthMode = "Selected" THEN Count("proxy", TRUE) ELSE 0
        IN  /\ Len(R) = 4 + dp + dn + pp + pn
            /\ R[1].kind = "hijack-dns" /\ R[1].port = 53
            /\ R[2].kind = "domain_suffix" /\ R[2].fixed = ".ru"
            /\ R[2].outbound = Some("direct")
            /\ R[3].kind = "rule_set" /\ R[3].fixed = "geoip-ru"
            /\ R[3].outbound = Some("direct")
            /\ R[4].kind = "inbound" /\ R[4].fixed = "local-proxy"
            /\ R[4].outbound = Some("proxy")
            /\ dp = 1 => ProcessRule(R[5], "process_path", "direct", FALSE, "direct")
            /\ dn = 1 => ProcessRule(R[5 + dp], "process_name", "direct", TRUE, "direct")
            /\ pp = 1 => ProcessRule(R[5 + dp + dn], "process_path", "proxy", FALSE, "proxy")
            /\ pn = 1 => ProcessRule(R[5 + dp + dn + pp], "process_name", "proxy", TRUE, "proxy")
            /\ route.final = IF SynthMode = "Selected" THEN "direct" ELSE "proxy"
            /\ \A i, j \in 5..Len(R) :
                   (/\ R[i].outbound = Some("direct")
                    /\ R[j].outbound = Some("proxy")
                    /\ SeqToSet(R[i].processes) \cap SeqToSet(R[j].processes) # {})
                   => i < j
            /\ SynthMode = "Full"
                   => \A i \in 5..Len(R) : R[i].outbound = Some("direct")

\* Selected, with the process name a listed as direct and, in quotes, as
\* proxy: both rules are generated.
C12_Witness ==
    /\ Synthesized
    /\ SynthMode = "Selected"
    /\ << 97 >> \in Listed("direct", TRUE) \cap Listed("proxy", TRUE)
    /\ Len(Unwrap(SynthRoute).rules) = 6

\* C14, as stated: a synthesis with mode Off produces a configuration with
\* no route section, whatever the stored profile carries.
C14_AsStated ==
    (Synthesized /\ SynthMode = "Off") => SynthRoute = None

\* ------------------------------------------------------ profile commands
\* Largest number of values in an enumerated import.
MaxBatch == 2
\* Largest number of endpoints a stored profile grows to.
MaxProfile == 3

IoInputs == {"ok", "write_error", "state_write_error"}

\* The values of the enumerated imports: tagged a, a blank tag with the
\* name a in "ps", an object with no tag and no type, and a value that is
\* no object.
RawInputs ==
    { RawOutbound(TRUE, Some("socks"), Some("a"), None),
      RawOutbound(TRUE, Some("socks"), Some(" "), Some("a")),
      RawOutbound(TRUE, None, None, None),
      RawOutbound(FALSE, None, None, None) }

\* The enumerated lines: a blank one, one of no supported scheme, one its
\* parser rejects, and one that parses to an endpoint tagged a.
LinkInputs ==
    { Link(" ", "", None),
      Link("x", "", None),
      Link("socks://", "socks", None),
      Link("socks://a", "socks",
           Some(RawOutbound(TRUE, Some("socks"), Some("a"), None))) }

Batches(set) == UNION { [1..n -> set] : n \in 0..MaxBatch }

PayloadInputs ==
    { Payload(kind, <<>>) : kind \in {"invalid", "other", "wrapped_other"} }
    \cup { Payload("array", values) : values \in Batches(RawInputs) }
    \cup { Payload(kind, << RawOutbound(TRUE, None, None, None) >>) :
               kind \in {"wrapped", "object"} }

\* The tags the user selects or deletes.
SelectInputs == {"a", "a-2", "direct"}

\* The candidate tags of the objects of a batch, in batch order.
RECURSIVE Candidates(_)
Candidates(batch) ==
    IF batch = <<>> THEN <<>>
    ELSE (IF Head(batch).object
          THEN << guess_tag(Head(batch),
                            IF Head(batch).type # None
                            THEN Unwrap(Head(batch).type) ELSE "profile") >>
          ELSE <<>>)
         \o Candidates(Tail(batch))

\* What a command was handed: the number of values (for share links, of
\* lines that are not blank), the candidate tags of those that are
\* endpoints, and what the file system did.
Handed(count, candidates, io) ==
    [count |-> count, candidates |-> candidates, io |-> io]

\* The lines that are not blank, and among them those that parse.
Lines(links) == SelectSeq(links, LAMBDA l : l.text \notin BlankStrings)
ParsedLines(links) ==
    SelectSeq(Lines(links), LAMBDA l : l.scheme # "" /\ l.outbound # None)

\* A profile command ran: what it leaves on disk and, with what it was
\* handed, what it returned.
Command(cmd, handed, r) ==
    /\ Len(r.profile.outbounds) <= MaxProfile
    /\ profile' = r.profile
    /\ active_tag' = r.active_tag
    /\ import_ret' = Some([cmd |-> cmd, handed |-> handed, err |-> r.err,
                           data |-> r.data, added |-> r.added,
                           errors |-> r.errors])
    /\ UNCHANGED << app_state, config_file, state, proc, monitor, tailer,
                    exit_event, late, apply_ret, synth_ret, log_file, trim,
                    call, tail, tail_ret, tls_ret >>

ImportShareLinks(links, io) ==
    \E r \in {import_share_links(profile, active_tag, links, io)} :
        Command("import_share_links",
                Handed(Len(Lines(links)),
                       Candidates([i \in 1..Len(ParsedLines(links)) |->
                                       Unwrap(ParsedLines(links)[i].outbound)]),
                       io),
                r)

ImportOutboundJson(payload, io) ==
    \E r \in {import_outbound_json(profile, active_tag, payload, io)} :
        Command("import_outbound_json",
                Handed(Len(payload.values), Candidates(payload.values), io), r)

SetActiveProfile(tag, io) ==
    \E r \in {set_active_profile(profile, active_tag, tag, io)} :
        Command("set_active_profile", Handed(1, << tag >>, io), r)

RemoveOutbound(tag, io) ==
    \E r \in {remove_outbound(profile, active_tag, tag, io)} :
        Command("remove_outbound", Handed(1, << tag >>, io), r)

\* The stored profiles the commands start from: their tags are pairwise
\* distinct and no active tag is stored.
ProfileInit ==
    /\ profile \in { NoProfile, default_profile }
                   \cup { ProfileDoc(shape, <<>>) :
                              shape \in {"unparsable", "not_object", "no_outbounds"} }
    /\ active_tag = None
    /\ SupervisorInit

ProfileNext ==
    \/ \E links \in Batches(LinkInputs), io \in IoInputs : ImportShareLinks(links, io)
    \/ \E payload \in PayloadInputs, io \in IoInputs : ImportOutboundJson(payload, io)
    \/ \E tag \in SelectInputs, io \in IoInputs : SetActiveProfile(tag, io)
    \/ \E tag \in SelectInputs, io \in IoInputs : RemoveOutbound(tag, io)

ProfileSpec == ProfileInit /\ [][ProfileNext]_vars

\* The step is a run of one of the commands cmds; Returned is its result.
Returned == Unwrap(import_ret')
Ran(cmds) == import_ret' # None /\ Returned.cmd \in cmds
Imported ==
    Ran({"import_share_links", "import_outbound_json"}) /\ Returned.err = None

\* The endpoints an import finds: those of the stored profile, or of the
\* default profile when there is no profile.json yet.
StoredBefore ==
    IF profile.exists THEN outbounds_or_default(profile)
    ELSE default_profile.outbounds

\* tag is T if T is not used, and else the first unused of T-2, T-3, ...
DashTag(T, n) == T \o "-" \o ToString(n)
Assigned(T, used, tag) ==
    IF T \notin used THEN tag = T
    ELSE \E n \in 2..(Cardinality(used) + 2) :
             /\ tag = DashTag(T, n)
             /\ tag \notin used
             /\ \A m \in 2..(n - 1) : DashTag(T, m) \in used

\* C15: a successful import appends one endpoint per descriptor, in batch
\* order, after the stored ones, and each gets its candidate tag T when T
\* is not used by the stored endpoints or by the descriptors merged before
\* it in the batch, and else the first unused tag among T-2, T-3, ...
C15_BatchTags ==
    [][Imported =>
           LET T   == Returned.handed.candidates
               new == profile'.outbounds
               n0  == Len(StoredBefore)
           IN  /\ Len(new) = n0 + Len(T)
               /\ SubSeq(new, 1, n0) = StoredBefore
               /\ \A i \in 1..Len(T) :
                      /\ new[n0 + i].tag # None
                      /\ Assigned(T[i],
                                  SeqToSet(TagsOf(SubSeq(new, 1, n0 + i - 1))),
                                  Unwrap(new[n0 + i].tag))]_vars

\* Two descriptors that both resolve to a were merged into a profile
\* without endpoints and got a and a-2.
C15_Witness ==
    /\ import_ret # None
    /\ Unwrap(import_ret).err = None
    /\ Unwrap(import_ret).handed.candidates = << "a", "a" >>
    /\ TagsOf(profile.outbounds) = << "a", "a-2" >>

\* C16: the tags of the endpoints of the stored profile are pairwise
\* distinct after every sequence of imports, selections and deletions.
C16_TagsDistinct ==
    \A i, j \in 1..Len(profile.outbounds) :
        (i < j /\ profile.outbounds[i].tag # None)
            => profile.outbounds[i].tag # profile.outbounds[j].tag

\* After imports of a three times and the deletion of a: a-2 and a-3.
C16_Witness ==
    /\ import_ret # None
    /\ Unwrap(import_ret).cmd = "remove_outbound"
    /\ TagsOf(profile.outbounds) = << "a-2", "a-3" >>

\* C17, as stated: the stored active tag is unset or names an endpoint of
\* the stored profile.
C17_AsStated ==
    \/ active_tag = None
    \/ \E i \in 1..Len(profile.outbounds) : profile.outbounds[i].tag = active_tag

\* The errors import_share_links returns when no line parses.
ImportFailed ==
    LET messages == { l.text \o ": " \o Unwrap(parse_share_link(l).err) :
                          l \in { k \in LinkInputs : k.text \notin BlankStrings
                                        /\ parse_share_link(k).err # None } }
    IN  { Some(err("IMPORT_FAILED", "no valid links")) }
        \cup { Some(err("IMPORT_FAILED", join(es, "\n"))) :
                   es \in UNION { [1..n -> messages] : n \in 1..MaxBatch } }

\* The import merged every parsed line and returned one message per line
\* that failed to parse, with the merged profile.
MergedAll ==
    LET parsed == Len(Returned.handed.candidates)
    IN  /\ Returned.err = None
        /\ Returned.added = parsed
        /\ Len(Returned.errors) = Returned.handed.count - parsed
        /\ Len(profile'.outbounds) = Len(StoredBefore) + parsed
        /\ Returned.data = Some(profile_data(profile', active_tag'))

\* C18, as stated: import_share_links fails with IMPORT_FAILED exactly when
\* no line parses, and then leaves the profile and the active tag as they
\* are; otherwise it merges every parsed line, counts them, and returns one
\* message per failed line with the merged profile.
C18_AsStated ==
    [][Ran({"import_share_links"}) =>
           IF Returned.handed.candidates = <<>>
           THEN /\ Returned.err \in ImportFailed
                /\ profile' = profile
                /\ active_tag' = active_tag
           ELSE MergedAll]_vars

\* C18, amended: when at least one line parses, the import still fails,
\* with the error of the profile and not IMPORT_FAILED, and changes nothing,
\* exactly when profile.json cannot be parsed, is not an object or cannot
\* be written; otherwise it merges every parsed line as stated.
C18_LinesIndependent ==
    [][Ran({"import_share_links"}) =>
           IF Returned.handed.candidates = <<>>
           THEN /\ Returned.err \in ImportFailed
                /\ profile' = profile
                /\ active_tag' = active_tag
           ELSE IF \/ profile.shape \in {"unparsable", "not_object"}
                   \/ Returned.handed.io = "write_error"
           THEN /\ Returned.err # None
                /\ Returned.err \notin ImportFailed
                /\ profile' = profile
                /\ active_tag' = active_tag
           ELSE MergedAll]_vars

\* An import of one line that parses and one that does not: one endpoint
\* added, one message returned.
C18_Witness ==
    /\ import_ret # None
    /\ Unwrap(import_ret).cmd = "import_share_links"
    /\ Unwrap(import_ret).err = None
    /\ Unwrap(import_ret).added = 1
    /\ Len(Unwrap(import_ret).errors) = 1

\* The tag of the first endpoint the import added.
FirstAdded == profile'.outbounds[Len(StoredBefore) + 1].tag

MaxLog == 6

Bytes == {0, 1}

\* The worker writes to its stdout or stderr, both opened for append on
\* singbox.log.
WorkerAppend(b) ==
    /\ Len(log_file) < MaxLog
    /\ log_file' = Append(log_file, b)
    /\ trim' = IF trim.pc \in {"idle", "stat"} THEN trim
               ELSE [trim EXCEPT !.during = Append(@, b)]
    /\ UNCHANGED << profile, active_tag, app_state, config_file, state, proc,
                    monitor, tailer, exit_event, late, apply_ret, synth_ret,
                    import_ret, call, tail, tail_ret, tls_ret >>

\* The call begins: from "idle", or from "stat" when the Log Tailer has
\* entered it.
TrimStat(meta_ok) ==
    /\ trim.pc \in {"idle", "stat"}
    /\ trim' = trim_stat(log_file, LOG_MAX_BYTES, meta_ok)
    /\ UNCHANGED << profile, active_tag, app_state, config_file, state, proc,
                    monitor, tailer, exit_event, late, apply_ret, synth_ret,
                    import_ret, log_file,
                    call, tail, tail_ret, tls_ret >>

TrimRead(read_ok) ==
    /\ trim.pc = "read"
    /\ trim' = trim_read(trim, log_file, LOG_KEEP_BYTES, read_ok)
    /\ UNCHANGED << profile, active_tag, app_state, config_file, state, proc,
                    monitor, tailer, exit_event, late, apply_ret, synth_ret,
                    import_ret, log_file,
                    call, tail, tail_ret, tls_ret >>

TrimTruncate(open_ok) ==
    /\ trim.pc = "truncate"
    /\ \E r \in {trim_truncate(trim, log_file, open_ok)} :
           trim' = r.trim /\ log_file' = r.file
    /\ UNCHANGED << profile, active_tag, app_state, config_file, state, proc,
                    monitor, tailer, exit_event, late, apply_ret, synth_ret,
                    import_ret,
                    call, tail, tail_ret, tls_ret >>

TrimWrite(written) ==
    /\ trim.pc = "write"
    /\ written <= Len(trim.buf)
    /\ \E r \in {trim_write(trim, log_file, written)} :
           trim' = r.trim /\ log_file' = r.file
    /\ UNCHANGED << profile, active_tag, app_state, config_file, state, proc,
                    monitor, tailer, exit_event, late, apply_ret, synth_ret,
                    import_ret,
                    call, tail, tail_ret, tls_ret >>

TrimInit ==
    /\ profile = NoProfile
    /\ active_tag = None
    /\ SupervisorInit

TrimNext ==
    \/ \E b \in Bytes : WorkerAppend(b)
    \/ \E meta_ok \in BOOLEAN : TrimStat(meta_ok)
    \/ \E read_ok \in BOOLEAN : TrimRead(read_ok)
    \/ \E open_ok \in BOOLEAN : TrimTruncate(open_ok)
    \/ \E written \in 0..MaxLog : TrimWrite(written)

TrimSpec == TrimInit /\ [][TrimNext]_vars

\* The step is the return of a trim_log_file call: the last system call of
\* a call under way, or a call that returns from fs::metadata.
TrimReturns ==
    /\ trim'.pc = "idle"
    /\ trim.pc # "idle" \/ log_file' = log_file

Trailing(file, n) == SubSeq(file, Len(file) - Min(n, Len(file)) + 1, Len(file))

\* C30, as stated: the bytes the worker appends while a rotation is in
\* progress are neither lost nor overwritten: when the rotation returns
\* Ok(true) the file is the kept tail followed by every byte appended since
\* the rotation took the length of the file, in order.
C30_AsStated ==
    [][(TrimReturns /\ trim'.ret = "true") =>
           log_file' = Trailing(trim'.before, LOG_KEEP_BYTES) \o trim.during]_vars

\* C20, as stated: a rotation step on a file longer than the maximum leaves
\* a file of at most the keep size whose content is the trailing keep bytes
\* of the file as it was before the step; a rotation step on a file of at
\* most the maximum leaves the file unchanged and reports nothing rotated.
C20_AsStated ==
    [][TrimReturns =>
           IF Len(trim'.before) > LOG_MAX_BYTES
           THEN /\ Len(log_file') <= LOG_KEEP_BYTES
                /\ log_file' = Trailing(trim'.before, LOG_KEEP_BYTES)
           ELSE /\ log_file' = trim'.before
                /\ trim'.ret = "false"]_vars
\* ------------------------------------------------------------------
\* The missing profile
\* ------------------------------------------------------------------

ProfileMissing == Some(err("PROFILE_MISSING", "profile.json"))

\* The call wrote the default profile, failed with PROFILE_MISSING, recorded
\* the error and spawned no worker.
SelfHealed ==
    /\ profile' = default_profile
    /\ apply_ret' # None
    /\ Unwrap(apply_ret').err = ProfileMissing
    /\ Unwrap(apply_ret').started = None
    /\ state'.last_error = ProfileMissing
    /\ state'.child = None
    /\ \A p \in Slots : proc[p].st = "unborn" => proc'[p].st = "unborn"

\* No synthesis on the profile document at hand fails with PROFILE_MISSING.
NeverMissing ==
    \A m \in Modes \ {"Off"}, app_rules \in AppliedRules,
       io \in {"ok", "path_error", "write_error"} :
        build_config(profile, active_tag, m, app_rules, io).err # ProfileMissing

\* C22, as stated: an apply with a mode other than Off that finds no profile
\* document writes the default profile, fails with PROFILE_MISSING without
\* spawning a worker and records the error; an apply that finds a profile
\* document does not fail with PROFILE_MISSING.
C22_AsStated ==
    [][IF ~profile.exists
       THEN \A m \in Modes \ {"Off"}, app_rules \in AppliedRules,
               env \in Outcomes :
                ApplyMode(m, app_rules, env) => SelfHealed
       ELSE NeverMissing]_vars

\* C22, amended: the same when the application data directory can be resolved
\* and profile.json can be written; when it cannot, the call fails with the
\* error of the path or of the write, records it, spawns no worker and leaves
\* the profile missing.
C22_MissingProfileHealed ==
    [][IF ~profile.exists
       THEN \A m \in Modes \ {"Off"}, app_rules \in AppliedRules,
               env \in Outcomes :
                ApplyMode(m, app_rules, env)
                => IF env.io = "ok" THEN SelfHealed
                   ELSE /\ profile' = profile
                        /\ Unwrap(apply_ret').err \notin {None, ProfileMissing}
                        /\ Unwrap(apply_ret').started = None
                        /\ state'.last_error = Unwrap(apply_ret').err
                        /\ state'.child = None
       ELSE NeverMissing]_vars

\* An apply found no profile document: the default profile is on disk, the
\* call failed with PROFILE_MISSING and no worker was ever spawned.
C22_Witness ==
    /\ apply_ret # None
    /\ LastApply.err = ProfileMissing
    /\ profile = default_profile
    /\ state.last_error = ProfileMissing
    /\ Spawned = {}
\* ------------------------------------------------------------------
\* Handle and mode
\* ------------------------------------------------------------------

\* running exactly when the mode is Selected or Full, a pid exactly when
\* running.
SnapshotCoherent(status) ==
    /\ status.running <=> status.mode \in {"Selected", "Full"}
    /\ status.pid # None <=> status.running

CallStages ==
    << "kill", "build_config", "log_path", "exe", "log_open", "clone", "spawn" >>

StageIndex(pc) == CHOOSE k \in 1..Len(CallStages) : CallStages[k] = pc

\* Where the call goes after the stage c.pc: to "return" from the kill when
\* the mode is Off, from build_config when it failed, from the stage that
\* fails and from the spawn; to the next stage otherwise.
next_stage(c, built_err) ==
    IF c.pc = "kill" /\ c.m = "Off" THEN "return"
    ELSE IF c.pc = "build_config" /\ built_err # None THEN "return"
    ELSE IF c.pc = c.env.stage \/ c.pc = "spawn" THEN "return"
    ELSE CallStages[StageIndex(c.pc) + 1]

\* apply_mode up to state.lock(): save_app_state, its result ignored.
CallBegin(m, app_rules, env) ==
    /\ call = None
    /\ state.watch_token < MaxToken
    /\ Cardinality(Spawned) < MaxToken
    /\ app_state' = IF env.io = "ok" THEN m ELSE app_state
    /\ call' = Some([m |-> m, app_rules |-> app_rules, env |-> env,
                     pc |-> "lock", locked |-> FALSE])
    /\ UNCHANGED << profile, active_tag, config_file, state, proc, monitor,
                    tailer, exit_event, late, apply_ret, synth_ret, import_ret,
                    log_file, trim, tail, tail_ret, tls_ret >>

\* let mut guard = state.lock()
CallLock ==
    /\ call # None
    /\ Unwrap(call).pc = "lock"
    /\ call' = Some([Unwrap(call) EXCEPT !.pc = "kill", !.locked = TRUE])
    /\ UNCHANGED << profile, active_tag, app_state, config_file, state, proc,
                    monitor, tailer, exit_event, late, apply_ret, synth_ret,
                    import_ret, log_file, trim, tail, tail_ret, tls_ret >>

\* One stage of the call; the guard is alive until the function returns.
\* The kill acts on the worker at once; what the other stages leave behind
\* is seen by the other users of the lock when the call returns.
CallStage ==
    /\ call # None
    /\ Unwrap(call).pc \in SeqToSet(CallStages)
    /\ \E c \in {Unwrap(call)} :
           /\ call' = Some([c EXCEPT !.pc =
                  next_stage(c, build_config(profile, active_tag, c.m,
                                             c.app_rules, c.env.io).err)])
           /\ proc' = IF c.pc = "kill" THEN kill_child(state, proc) ELSE proc
           /\ state' = IF c.pc = "kill"
                       THEN [state EXCEPT !.child = None, !.mode = "Off",
                                          !.last_error = None]
                       ELSE state
    /\ UNCHANGED << profile, active_tag, app_state, config_file, monitor,
                    tailer, exit_event, late, apply_ret, synth_ret, import_ret,
                    log_file, trim, tail, tail_ret, tls_ret >>

\* The return of the call: the guard is dropped.
CallReturn ==
    /\ call # None
    /\ Unwrap(call).pc = "return"
    /\ \E c \in {Unwrap(call)} :
       \E r \in {apply_mode(state, proc, profile, active_tag, config_file, c.m,
                            c.app_rules, c.env, Cardinality(Spawned) + 1)} :
           /\ state' = r.state
           /\ proc' = r.proc
           /\ profile' = r.profile
           /\ config_file' = r.config
           /\ apply_ret' = Some(r.ret)
           /\ monitor' = IF r.ret.started = None THEN monitor
                         ELSE [monitor EXCEPT ![Unwrap(r.ret.started)] =
                                   [pc |-> "sleep", token |-> r.state.watch_token,
                                    code |-> None]]
           /\ tailer' = IF r.ret.started = None THEN tailer
                        ELSE [tailer EXCEPT ![Unwrap(r.ret.started)] =
                                  [pc |-> "open", token |-> r.state.watch_token]]
    /\ call' = None
    /\ UNCHANGED << active_tag, app_state, exit_event, late, synth_ret,
                    import_ret, log_file, trim, tail, tail_ret, tls_ret >>

\* No apply_mode call holds the lock.
LockFree == IF call = None THEN TRUE ELSE ~Unwrap(call).locked

LockInit ==
    /\ profile = default_profile
    /\ active_tag = None
    /\ SupervisorInit

\* The calls of apply_mode, the status queries, the Monitors and the workers.
LockNext ==
    \/ \E m \in Modes, env \in Outcomes : CallBegin(m, <<>>, env)
    \/ CallLock
    \/ CallStage
    \/ CallReturn
    \/ LockFree /\ \E wait_fails \in BOOLEAN : GetStatus(wait_fails)
    \/ LockFree /\ \E i \in Slots, wait_fails \in BOOLEAN :
                       MonitorPoll(i, wait_fails)
    \/ \E i \in Slots : MonitorEmit(i)
    \/ \E p \in Slots, code \in ExitCodes : WorkerExit(p, code)

LockSpec == LockInit /\ [][LockNext]_vars

\* C25, as stated: while the lock is held the only file or process I/O is
\* the kill and wait of the worker and the poll of the returning call:
\* build_config, the copy of the executable, the open of the log and the
\* spawn are not performed under the lock.
C25_AsStated == LockFree \/ Unwrap(call).pc \in {"kill", "return"}
\* ------------------------------------------------------------------
\* The default of the selector
\* ------------------------------------------------------------------

\* The selectors tagged proxy of the generated configuration that synthesis
\* appended or changed.
MadeSelectors ==
    { k \in 1..Len(SynthOut) :
          /\ SynthOut[k].type = "selector"
          /\ SynthOut[k].tag = Some("proxy")
          /\ \/ k > Len(profile.outbounds)
             \/ SynthOut[k] # profile.outbounds[k] }

\* C28, as stated: in every generated configuration the default of a
\* selector tagged proxy that synthesis created or updated names one of the
\* selector's own members: not proxy, not direct, and a tag of the outbound
\* list.
C28_AsStated ==
    (SynthRead /\ Synthesized) =>
        \A k \in MadeSelectors :
            /\ SynthOut[k].default # None
            /\ SynthOut[k].outbounds # None
            /\ Unwrap(SynthOut[k].default)
                   \in SeqToSet(Unwrap(SynthOut[k].outbounds))
            /\ Unwrap(SynthOut[k].default) \notin {"proxy", "direct"}
            /\ Unwrap(SynthOut[k].default) \in SeqToSet(TagsOf(SynthOut))
\* ------------------------------------------------------------------
\* tls_from_params on its own
\* ------------------------------------------------------------------

TlsParamInputs ==
    { TlsParams(security, tls, sni, server_name, insecure) :
          security \in {None, Some(""), Some("none"), Some("tls"), Some("TLS")},
          tls \in {None, Some("tls")},
          sni \in {None, Some("sni.example")},
          server_name \in {None, Some("name.example")},
          insecure \in {None, Some("1"), Some("0")} }

\* The parsers of the share links pass the target host; None is the call
\* without a fallback.
FallbackInputs == {None, Some("host.example")}

TlsFromParams(params, fallback_sni) ==
    /\ tls_ret' = Some([params |-> params, fallback_sni |-> fallback_sni,
                        tls |-> tls_from_params(params, fallback_sni)])
    /\ UNCHANGED << profile, active_tag, app_state, config_file, state, proc,
                    monitor, tailer, exit_event, late, apply_ret, synth_ret,
                    import_ret, log_file, trim, call, tail, tail_ret >>

TlsInit ==
    /\ profile = NoProfile
    /\ active_tag = None
    /\ SupervisorInit

TlsNext ==
    \E params \in TlsParamInputs, fallback_sni \in FallbackInputs :
        TlsFromParams(params, fallback_sni)

TlsSpec == TlsInit /\ [][TlsNext]_vars

\* C23, as stated: when TLS is enabled the server name is the sni parameter
\* if present, otherwise the server_name parameter if present, and only
\* when neither is present the fallback of the caller.
C23_AsStated ==
    (tls_ret # None /\ Unwrap(tls_ret).tls # None) =>
        Unwrap(Unwrap(tls_ret).tls).server_name =
            OrElse(OrElse(Unwrap(tls_ret).params.sni,
                          Unwrap(tls_ret).params.server_name),
                   Unwrap(tls_ret).fallback_sni)
\* ------------------------------------------------------------------
\* read_log_tail on its own
\* ------------------------------------------------------------------

MaxFile == 5

\* Line feed, carriage return and two letters.
FileBytes == {NL, CR, 97, 98}

FileInputs ==
    { None } \cup { Some(f) : f \in UNION { [1..n -> FileBytes] : n \in 0..MaxFile } }

LimitInputs == {None, Some(0), Some(1), Some(2), Some(3)}

ReadLogTail(limit, open_ok) ==
    /\ tail_ret # None
    /\ \E r \in {read_log_tail(Unwrap(tail_ret).file, limit, open_ok)} :
           tail_ret' = Some([file |-> Unwrap(tail_ret).file, limit |-> limit,
                             called |-> TRUE, err |-> r.err, lines |-> r.lines])
    /\ UNCHANGED << profile, active_tag, app_state, config_file, state, proc,
                    monitor, tailer, exit_event, late, apply_ret, synth_ret,
                    import_ret, log_file, trim, call, tail, tls_ret >>

\* The log file the command finds, before the first call.
ReadInit ==
    /\ profile = NoProfile
    /\ active_tag = None
    /\ app_state = "Off"
    /\ config_file = None
    /\ state = ProxyStateDefault
    /\ proc = [p \in Slots |-> Unborn]
    /\ monitor = [i \in Slots |-> [pc |-> "none", token |-> 0, code |-> None]]
    /\ tailer = [i \in Slots |-> [pc |-> "none", token |-> 0]]
    /\ exit_event = [i \in Slots |-> None]
    /\ late = FALSE
    /\ apply_ret = None
    /\ synth_ret = None
    /\ import_ret = None
    /\ log_file = <<>>
    /\ trim = TrimIdle("none", <<>>)
    /\ call = None
    /\ tail = None
    /\ tls_ret = None
    /\ \E file \in FileInputs :
           tail_ret = Some([file |-> file, limit |-> None, called |-> FALSE,
                            err |-> None, lines |-> <<>>])

ReadNext ==
    \E limit \in LimitInputs, open_ok \in BOOLEAN : ReadLogTail(limit, open_ok)

ReadSpec == ReadInit /\ [][ReadNext]_vars

\* The last n elements of a sequence, or all of it.
LastOf(seq, n) == SubSeq(seq, Len(seq) - Min(n, Len(seq)) + 1, Len(seq))

\* C24, as stated: reading the last N lines (N at least 1) of a log file
\* returns the last min(N, number of lines) lines of the file, in file
\* order, each complete.
C24_AsStated ==
    (/\ tail_ret # None
     /\ Unwrap(tail_ret).called
     /\ Unwrap(tail_ret).err = None
     /\ Unwrap(tail_ret).file # None
     /\ Unwrap(tail_ret).limit \notin {None, Some(0)})
        => Unwrap(tail_ret).lines =
               LastOf(lines(Unwrap(Unwrap(tail_ret).file)),
                      Unwrap(Unwrap(tail_ret).limit))
\* ------------------------------------------------------------------
\* The Log Tailer of a running worker, the worker's output and the rotation
\* ------------------------------------------------------------------

MaxWritten == 4

LogBytes == {NL, 97}

\* The worker this Log Tailer was started with.
TailedWorker == 1

\* The worker writes a byte to the log.
WorkerWrite(b) ==
    /\ proc[TailedWorker].st = "alive"
    /\ Len(tail.written) < MaxWritten
    /\ Len(log_file) < MaxLog
    /\ log_file' = Append(log_file, b)
    /\ trim' = IF trim.pc \in {"idle", "stat"} THEN trim
               ELSE [trim EXCEPT !.during = Append(@, b)]
    /\ tail' = [tail EXCEPT !.written = Append(@, b)]
    /\ UNCHANGED << profile, active_tag, app_state, config_file, state, proc,
                    monitor, tailer, exit_event, late, apply_ret, synth_ret,
                    import_ret, call, tail_ret, tls_ret >>

TailerOpen(opened) ==
    /\ tail.pc = "open"
    /\ tail' = [tailer_open(tail, log_file, opened) EXCEPT !.written = <<>>]
    /\ UNCHANGED << profile, active_tag, app_state, config_file, state, proc,
                    monitor, tailer, exit_event, late, apply_ret, synth_ret,
                    import_ret, log_file, trim, call, tail_ret, tls_ret >>

TailerCheck(due) ==
    /\ tail.pc = "sleep"
    /\ tail' = tailer_check(tail, stale(state, tailer[TailedWorker].token), due)
    /\ trim' = IF tail'.pc = "trim" THEN [trim EXCEPT !.pc = "stat"] ELSE trim
    /\ UNCHANGED << profile, active_tag, app_state, config_file, state, proc,
                    monitor, tailer, exit_event, late, apply_ret, synth_ret,
                    import_ret, log_file, call, tail_ret, tls_ret >>

\* The trim_log_file call of the pass, one system call at a time.
TailerTrim ==
    /\ tail.pc = "trim"
    /\ trim.pc # "idle"
    /\ \/ \E meta_ok \in BOOLEAN : TrimStat(meta_ok)
       \/ \E read_ok \in BOOLEAN : TrimRead(read_ok)
       \/ \E open_ok \in BOOLEAN : TrimTruncate(open_ok)
       \/ \E written \in 0..MaxLog : TrimWrite(written)

TailerReopen(opened) ==
    /\ tail.pc = "trim"
    /\ trim.pc = "idle"
    /\ tail' = tailer_reopen(tail, log_file, trim.ret, opened)
    /\ trim' = TrimIdle("none", <<>>)
    /\ UNCHANGED << profile, active_tag, app_state, config_file, state, proc,
                    monitor, tailer, exit_event, late, apply_ret, synth_ret,
                    import_ret, log_file, call, tail_ret, tls_ret >>

TailerDrain(read_ok) ==
    /\ tail.pc = "drain"
    /\ tail' = tailer_drain(tail, log_file, read_ok)
    /\ UNCHANGED << profile, active_tag, app_state, config_file, state, proc,
                    monitor, tailer, exit_event, late, apply_ret, synth_ret,
                    import_ret, log_file, trim, call, tail_ret, tls_ret >>

TailerFlush(elapsed) ==
    /\ tail.pc = "flush"
    /\ tail' = tailer_flush(tail, elapsed)
    /\ UNCHANGED << profile, active_tag, app_state, config_file, state, proc,
                    monitor, tailer, exit_event, late, apply_ret, synth_ret,
                    import_ret, log_file, trim, call, tail_ret, tls_ret >>

\* The log an apply_mode call finds: none yet, or lines of an earlier run.
EarlierLogs == { <<>>, << 97, NL, 97, NL >> }

\* The state apply_mode(Full) leaves when it has started a worker on the
\* default profile: the worker runs, its Monitor and its Log Tailer have
\* been spawned.
StartedFull ==
    apply_mode(ProxyStateDefault, [p \in Slots |-> Unborn], default_profile,
               None, None, "Full", <<>>, Outcome("ok", "none", Alive, FALSE),
               TailedWorker)

TailInit ==
    /\ profile = default_profile
    /\ active_tag = None
    /\ app_state = "Full"
    /\ config_file = StartedFull.config
    /\ state = StartedFull.state
    /\ proc = StartedFull.proc
    /\ monitor = [i \in Slots |->
                      IF i = TailedWorker
                      THEN [pc |-> "sleep", token |-> StartedFull.state.watch_token,
                            code |-> None]
                      ELSE [pc |-> "none", token |-> 0, code |-> None]]
    /\ tailer = [i \in Slots |->
                     IF i = TailedWorker
                     THEN [pc |-> "open", token |-> StartedFull.state.watch_token]
                     ELSE [pc |-> "none", token |-> 0]]
    /\ exit_event = [i \in Slots |-> None]
    /\ late = FALSE
    /\ apply_ret = Some(StartedFull.ret)
    /\ synth_ret = None
    /\ import_ret = None
    /\ log_file \in EarlierLogs
    /\ trim = TrimIdle("none", <<>>)
    /\ call = None
    /\ tail = Tailer("open", FALSE, 0, <<>>, <<>>, <<>>)
    /\ tail_ret = None
    /\ tls_ret = None

TailNext ==
    \/ \E b \in LogBytes : WorkerWrite(b)
    \/ WorkerExit(TailedWorker, Some(1))
    \/ ApplyMode("Off", <<>>, Outcome("ok", "none", Alive, FALSE))
    \/ \E opened \in BOOLEAN : TailerOpen(opened)
    \/ \E due \in BOOLEAN : TailerCheck(due)
    \/ TailerTrim
    \/ \E opened \in BOOLEAN : TailerReopen(opened)
    \/ \E read_ok \in BOOLEAN : TailerDrain(read_ok)
    \/ \E elapsed \in BOOLEAN : TailerFlush(elapsed)

TailSpec == TailInit /\ [][TailNext]_vars
\* The bytes of text up to its last line feed: its complete lines.
UpToLastNL(text) ==
    LET ends == { k \in 1..Len(text) : text[k] = NL }
    IN  IF ends = {} THEN <<>>
        ELSE SubSeq(text, 1, CHOOSE k \in ends : \A j \in ends : j <= k)

\* The bytes of the file the reader has not read.
Unread ==
    IF tail.pos >= Len(log_file) THEN <<>>
    ELSE SubSeq(log_file, tail.pos + 1, Len(log_file))

\* C21, as stated: a drain pass puts only complete, newline-terminated lines
\* into the pending buffer: of a line whose beginning is in the file and
\* whose line feed is not, nothing is taken in that pass, and the reader
\* stays at its beginning.
C21_AsStated ==
    [][(tail.pc = "drain" /\ tail'.pc = "flush") =>
           /\ tail'.pending =
                  tail.pending \o read_lines(UpToLastNL(Unread), <<>>, <<>>)
           /\ tail'.pos = tail.pos + Len(UpToLastNL(Unread))]_vars

\* C26, as stated: the Log Tailer ends when, and only when, its token is
\* stale at the check, or the log file cannot be opened, reopened after a
\* rotation, or read; in particular a failed reopen after a rotation ends it.
C26_AsStated ==
    [][tail'.pc # tail.pc =>
           CASE tail.pc = "open"  -> tail'.pc = "ended" <=> ~tail'.opened
             [] tail.pc = "sleep" ->
                    tail'.pc = "ended"
                        <=> stale(state, tailer[TailedWorker].token)
             [] tail.pc = "trim"  ->
                    tail'.pc = "ended" <=> (trim.ret = "true" /\ ~tail'.opened)
             [] tail.pc = "flush" -> tail'.pc # "ended"
             [] OTHER -> TRUE]_vars

RECURSIVE Flatten(_)
Flatten(batches) ==
    IF batches = <<>> THEN <<>> ELSE Head(batches) \o Flatten(Tail(batches))

IsPrefix(s, t) == Len(s) <= Len(t) /\ SubSeq(t, 1, Len(s)) = s

\* The lines emitted in batches, followed by the pending ones, are the first
\* of the complete non-empty lines the worker has appended since the Log
\* Tailer opened the file, each once and in the order they were appended.
EmittedInOrder ==
    IsPrefix(Flatten(tail.batches) \o tail.pending,
             read_lines(UpToLastNL(tail.written), <<>>, <<>>))

\* C29, as stated: every complete non-empty line appended since the Log
\* Tailer opened the file is emitted once and in order, also across a
\* rotation: what has been emitted or is pending is always a beginning of
\* those lines, and a drain pass leaves none of them behind.
C29_AsStated ==
    [][/\ EmittedInOrder'
       /\ (tail.pc = "drain" /\ tail'.pc = "flush") =>
              Flatten(tail'.batches) \o tail'.pending =
                  read_lines(UpToLastNL(tail'.written), <<>>, <<>>)]_vars
====
